---- MODULE Spec2Model ----
(***************************************************************************)
(* Forecasting-and-evaluation engine of finance-visionary-toolkit:         *)
(* the model library (src/src/utils/predictionModels.ts), the metric       *)
(* library, the backtest harness and the scorer (src/unnamed/part_001).    *)
(*                                                                         *)
(* JavaScript numbers are modelled as exact rationals num/den extended by  *)
(* NaN, +Infinity and -Infinity (den = 0); binary rounding error and the   *)
(* sign of zero are not modelled.  A Date is its time value in hours since *)
(* the epoch; a 'YYYY-MM-DD' string is its day number since 1970-01-01.    *)
(***************************************************************************)
EXTENDS Integers, Sequences, FiniteSets, TLC

(***************************************************************************)
(* Bounds of the model.                                                    *)
(***************************************************************************)
MaxLen == 8
MaxH == 2
MaxWindow == 2
MaxMetricLen == 3
MaxMetricVal == 1
MaxExtremeLen == 2
MaxPageLen == 4
MaxSteps == 2
MaxLinearLen == 10
MaxLinearH == 3
MaxSeasonalH == 15
MaxLstmH == 5
MaxMissing == 1
MaxCached == 1
MaxContextSteps == 3

(***************************************************************************)
(* Numbers.                                                                *)
(***************************************************************************)
RECURSIVE GCD(_, _)
GCD(a, b) == IF b = 0 THEN a ELSE GCD(b, a % b)

AbsInt(a) == IF a < 0 THEN -a ELSE a

SignInt(a) == IF a < 0 THEN -1 ELSE IF a > 0 THEN 1 ELSE 0

\* A number is n/d * 2^(512*e), n/d in lowest terms with d > 0 and of moderate size;
\* d = 0 is NaN (0/0) or +-Infinity (+-1/0).  A double holds magnitudes below 2^1024
\* and above 2^-1075: a result of 2^1024 or more is +-Infinity, one of 2^-1536 or
\* less is 0.
Scaled(n, d, e) ==
  IF d = 0 THEN [n |-> SignInt(n), d |-> 0, e |-> 0]
  ELSE IF n = 0 \/ e < -2 THEN [n |-> 0, d |-> 1, e |-> 0]
  ELSE IF e > 2 \/ (e = 2 /\ AbsInt(n) >= AbsInt(d))
         THEN [n |-> SignInt(n) * SignInt(d), d |-> 0, e |-> 0]
  ELSE LET s == IF d < 0 THEN -1 ELSE 1
           g == GCD(AbsInt(n), AbsInt(d))
       IN  [n |-> (s * n) \div g, d |-> (s * d) \div g, e |-> e]

Norm(n, d) == Scaled(n, d, 0)

Int2Num(k) == [n |-> k, d |-> 1, e |-> 0]
Frac(a, b) == Norm(a, b)
Zero == Int2Num(0)
NaN == [n |-> 0, d |-> 0, e |-> 0]
\* undefined, the value of a missing cell of a numeric column: NaN in arithmetic, and a
\* TypeError where a method is called on it
Undefined == [n |-> 0, d |-> 0, e |-> 0, missing |-> TRUE]
PosInf == [n |-> 1, d |-> 0, e |-> 0]
IsNaN(x) == x.d = 0 /\ x.n = 0
IsFinite(x) == x.d > 0

Mul(x, y) == Scaled(x.n * y.n, x.d * y.d, x.e + y.e)

Neg(x) == [x EXCEPT !.n = -(x.n)]

\* of two finite terms 2^512 apart, the sum rounds to the larger
Add(x, y) ==
  IF IsNaN(x) \/ IsNaN(y) THEN NaN
  ELSE IF x.d = 0 /\ y.d = 0 THEN (IF x.n = y.n THEN x ELSE NaN)
  ELSE IF x.d = 0 THEN x
  ELSE IF y.d = 0 THEN y
  ELSE IF x.n = 0 THEN y
  ELSE IF y.n = 0 THEN x
  ELSE IF x.e > y.e THEN x
  ELSE IF y.e > x.e THEN y
  ELSE LET g == GCD(x.d, y.d)
       IN  Scaled(x.n * (y.d \div g) + y.n * (x.d \div g), (x.d \div g) * y.d, x.e)

Sub(x, y) == Add(x, Neg(y))

Recip(x) ==
  IF x.n < 0 THEN [n |-> -(x.d), d |-> -(x.n), e |-> -(x.e)]
  ELSE [n |-> x.d, d |-> x.n, e |-> -(x.e)]

Div(x, y) == Mul(x, Recip(y))

AbsNum(x) == [x EXCEPT !.n = AbsInt(x.n)]

\* x < y and friends; every comparison with NaN is false
Lt(x, y) ==
  /\ ~IsNaN(x) /\ ~IsNaN(y)
  /\ IF x.e = y.e /\ x.d > 0 /\ y.d > 0 THEN x.n * y.d < y.n * x.d
     ELSE x # y /\ Sub(x, y).n < 0
Gt(x, y) == Lt(y, x)
Ge(x, y) == ~IsNaN(x) /\ ~IsNaN(y) /\ ~Lt(x, y)

\* parseFloat(x.toFixed(2)): the nearest multiple of 0.01, a tie going away from zero
\* (long division, digit by digit, so that no intermediate product outgrows an integer)
ToFixed2(x) ==
  IF x.d = 0 \/ x.e > 0 THEN x
  ELSE IF x.e < 0 THEN Zero
  ELSE LET a == AbsInt(x.n)
           whole == a \div x.d
           r1 == a % x.d
           tenths == (10 * r1) \div x.d
           r2 == (10 * r1) % x.d
           hundredths == (10 * r2) \div x.d
           r3 == (10 * r2) % x.d
           up == IF 2 * r3 >= x.d THEN 1 ELSE 0
       IN  Norm(SignInt(x.n) * (100 * whole + 10 * tenths + hundredths + up), 100)

\* Math.sqrt: exact where the root is, else the term "the non-negative root of x"
Sqrt(x) ==
  IF x = Zero \/ x = PosInf THEN x
  ELSE IF x.d = 0 \/ x.n < 0 THEN NaN
  ELSE [sqrtOf |-> x]

RECURSIVE SumNums(_)
SumNums(s) == IF s = <<>> THEN Zero ELSE Add(SumNums(SubSeq(s, 1, Len(s) - 1)), s[Len(s)])

\* array.slice(-k)
SliceLast(s, k) == IF Len(s) <= k THEN s ELSE SubSeq(s, Len(s) - k + 1, Len(s))

\* an array read: an index outside the array gives undefined, NaN in arithmetic
At(s, i) == IF i \in 1..Len(s) THEN s[i] ELSE NaN


(***************************************************************************)
(* State.                                                                  *)
(***************************************************************************)
VARIABLES
  tz,      \* the time zone of the JavaScript host (read by Date's local-time methods)
  data,    \* the input series: rows in positional order, each with its object identity
  nextId,  \* the identity the next allocated object gets
  op,      \* the last call made and what it returned
  page,    \* the state of the Prediction page component
  context  \* the state of the DataProvider component, with its updates not yet applied

vars == <<tz, data, nextId, op, page, context>>

(***************************************************************************)
(* Date: new Date('YYYY-MM-DD'), getDate/setDate (local time), toISOString.*)
(***************************************************************************)
\* first hour (UTC) of daylight saving time in 2024: 10 March 02:00 EST, 31 March 01:00 UTC
DstStartNewYork == 19792 * 24 + 7
DstStartBerlin == 19813 * 24 + 1

Zones ==
  { [name |-> "UTC", std |-> 0, dst |-> FALSE, dstStart |-> 0],
    [name |-> "America/New_York", std |-> -5, dst |-> TRUE, dstStart |-> DstStartNewYork],
    [name |-> "Europe/Berlin", std |-> 1, dst |-> TRUE, dstStart |-> DstStartBerlin] }

\* local time minus UTC, in hours, at the instant t
LocalOffset(t) == IF tz.dst /\ t >= tz.dstStart THEN tz.std + 1 ELSE tz.std

LocalTime(t) == t + LocalOffset(t)

\* the instant of a local wall-clock time (a skipped hour is read with the offset before the change)
UTC(wall) ==
  LET t1 == wall - tz.std
      t2 == wall - (tz.std + 1)
  IN  IF LocalOffset(t1) = tz.std THEN t1
      ELSE IF LocalOffset(t2) = tz.std + 1 THEN t2
      ELSE t1

\* new Date(s) for a date-only ISO string: midnight UTC of that day
ParseDate(day) == day * 24

\* d = new Date(t); d.setDate(d.getDate() + i): i local calendar days later, same local time of day
SetDatePlus(t, i) == UTC(LocalTime(t) + 24 * i)

\* d.toISOString().split('T')[0]: the UTC calendar day
ToISODate(t) == t \div 24

(***************************************************************************)
(* Rows.                                                                   *)
(***************************************************************************)
Fields == {"close", "open"}

\* item[targetCol]
Get(item, targetCol) == IF targetCol = "close" THEN item.close ELSE item.open

\* data.map(item => item[targetCol])
Column(rows, targetCol) == [k \in 1..Len(rows) |-> Get(rows[k], targetCol)]

Ids(rows) == [k \in 1..Len(rows) |-> rows[k].id]

IdSet(rows) == {rows[k].id : k \in 1..Len(rows)}

\* what a call of a model function comes to: it threw, or returned rows; the model
\* functions it delegated to; and the input array as the call left it
Thrown(rows) == [thrown |-> TRUE, rows |-> <<>>, log |-> <<>>, input |-> rows]

\* the prediction loop every model ends with (value of day i: Val[i])
Predictions(rows, targetCol, daysToPredict, Val) ==
  IF Len(rows) = 0 THEN Thrown(rows)   \* data[data.length - 1] is undefined: TypeError
  ELSE IF \E i \in 1..daysToPredict : Val[i] = Undefined
  THEN Thrown(rows)                     \* predictedValue.toFixed on undefined: TypeError
  ELSE LET lastDate == ParseDate(rows[Len(rows)].date)
       IN  [thrown |-> FALSE,
            rows |-> [i \in 1..daysToPredict |->
                        [date |-> ToISODate(SetDatePlus(lastDate, i)),
                         field |-> targetCol,
                         value |-> Val[i],
                         isPrediction |-> TRUE]],
            log |-> <<>>,
            input |-> rows]

\* a delegating model returns the callee's result; the delegation is recorded
Delegate(fn, r) == [r EXCEPT !.log = <<fn>> \o r.log]


(***************************************************************************)
(* A value whose arithmetic has no exact rational form here (Math.exp,     *)
(* Math.sqrt, Math.tanh), or whose denominators outgrow the integers, is   *)
(* kept as a term over exactly what the code computing it reads: the       *)
(* target values, the row dates and the host time zone where getDay() is   *)
(* used, the horizon where it enters the arithmetic, the day i, and the    *)
(* results of Math.random() where it is called.                            *)
(***************************************************************************)
NoDates == <<>>
NoZone == "-"
NoRandom == <<>>

Term(fn, values, dates, zone, h, i, rnd) ==
  [fn |-> fn, values |-> values, dates |-> dates, zone |-> zone, h |-> h, i |-> i, rnd |-> rnd]

Dates(rows) == [k \in 1..Len(rows) |-> rows[k].date]

(***************************************************************************)
(* Model library: the models whose arithmetic is rational.                 *)
(***************************************************************************)
\* the least-squares line through (0, values[0]) .. (n-1, values[n-1])
LeastSquaresIndexFromOne(values) ==
  LET n == Len(values)
      sumX == SumNums([k \in 1..n |-> Int2Num(k)])
      sumY == SumNums(values)
      sumXY == SumNums([k \in 1..n |-> Mul(Int2Num(k), values[k])])
      sumXX == SumNums([k \in 1..n |-> Int2Num(k * k)])
      slope == Div(Sub(Mul(Int2Num(n), sumXY), Mul(sumX, sumY)),
                   Sub(Mul(Int2Num(n), sumXX), Mul(sumX, sumX)))
  IN  [slope |-> slope, intercept |-> Div(Sub(sumY, Mul(slope, sumX)), Int2Num(n))]

\* slope and intercept of the least-squares line through (0, values[1]), (1, values[2]), ...
LeastSquares(values) ==
  LET n == Len(values)
      sumX == SumNums([k \in 1..n |-> Int2Num(k - 1)])
      sumY == SumNums(values)
      sumXY == SumNums([k \in 1..n |-> Mul(Int2Num(k - 1), values[k])])
      sumXX == SumNums([k \in 1..n |-> Int2Num((k - 1) * (k - 1))])
      slope == Div(Sub(Mul(Int2Num(n), sumXY), Mul(sumX, sumY)),
                   Sub(Mul(Int2Num(n), sumXX), Mul(sumX, sumX)))
  IN  [slope |-> slope, intercept |-> Div(Sub(sumY, Mul(slope, sumX)), Int2Num(n))]

nextXAfterGap(length, i) == length + i

\* xValues.length + i - 1
nextX(length, i) == length + i - 1

linearRegressionModel(rows, targetCol, daysToPredict) ==
  LET yValues == Column(rows, targetCol)
      fit == LeastSquares(yValues)
      predictedValue(i) ==
        Add(Mul(fit.slope, Int2Num(nextX(Len(yValues), i))), fit.intercept)
  IN  Predictions(rows, targetCol, daysToPredict, [i \in 1..daysToPredict |-> ToFixed2(predictedValue(i))])

windowSize == 5

movingAverageModel(rows, targetCol, daysToPredict) ==
  LET values == Column(rows, targetCol)
      lastWindow == SliceLast(values, windowSize)
      movingAverage == Div(SumNums(lastWindow), Int2Num(windowSize))
  IN  Predictions(rows, targetCol, daysToPredict, [i \in 1..daysToPredict |-> ToFixed2(movingAverage)])

alpha == Frac(3, 10)

\* forecast after the smoothing loop has consumed values[1..k]
RECURSIVE Smoothed(_, _)
Smoothed(values, k) ==
  IF k <= 1 THEN At(values, 1)
  ELSE Add(Mul(alpha, values[k]), Mul(Sub(Int2Num(1), alpha), Smoothed(values, k - 1)))

exponentialSmoothingModel(rows, targetCol, daysToPredict) ==
  LET values == Column(rows, targetCol)
      forecast == Smoothed(values, Len(values))
  IN  Predictions(rows, targetCol, daysToPredict, [i \in 1..daysToPredict |-> ToFixed2(forecast)])

\* arimaLikeModel's order = p + 1 with AR order p = 3
arimaOrder == 3 + 1

RECURSIVE arimaStepFromRounded(_, _, _)
arimaStepFromRounded(lastValue, avgDiff, i) ==
  IF i = 0 THEN lastValue
  ELSE Add(ToFixed2(arimaStepFromRounded(lastValue, avgDiff, i - 1)), avgDiff)

\* lastValue after i rounds of the prediction loop: predictedValue = lastValue + avgDiff,
\* and the unrounded predictedValue is the next lastValue
RECURSIVE arimaStep(_, _, _)
arimaStep(lastValue, avgDiff, i) ==
  IF i = 0 THEN lastValue ELSE Add(arimaStep(lastValue, avgDiff, i - 1), avgDiff)

arimaFallsBackAtOrder(values) == Len(values) <= arimaOrder

\* values.length < order
arimaFallsBack(values) == Len(values) < arimaOrder

arimaLikeModel(rows, targetCol, daysToPredict) ==
  LET values == Column(rows, targetCol)
      lastValues == SliceLast(values, arimaOrder)
      diff == [k \in 1..(Len(lastValues) - 1) |-> Sub(lastValues[k + 1], lastValues[k])]
      avgDiff == Div(SumNums(diff), Int2Num(Len(diff)))
  IN  IF arimaFallsBack(values)
      THEN Delegate("exponentialSmoothingModel",
                    exponentialSmoothingModel(rows, targetCol, daysToPredict))
      ELSE Predictions(rows, targetCol, daysToPredict,
                       [i \in 1..daysToPredict |-> ToFixed2(arimaStep(lastValues[Len(lastValues)], avgDiff, i))])

seasonLength == 7

seasonalIndexFromDay(length, i) == length - seasonLength + (i % seasonLength)

\* values.length - seasonLength + ((i - 1) % seasonLength), an index from 0
seasonalIndex(length, i) == length - seasonLength + ((i - 1) % seasonLength)

seasonalNaiveModel(rows, targetCol, daysToPredict) ==
  LET values == Column(rows, targetCol)
  IN  IF Len(values) < seasonLength
      THEN Delegate("movingAverageModel", movingAverageModel(rows, targetCol, daysToPredict))
      ELSE Predictions(rows, targetCol, daysToPredict,
                       [i \in 1..daysToPredict |->
                          ToFixed2(values[seasonalIndex(Len(values), i) + 1])])

reversionSpeed == Frac(1, 10)

RECURSIVE revertFromRounded(_, _, _)
revertFromRounded(currentValue, mean, i) ==
  IF i = 0 THEN currentValue
  ELSE LET c == ToFixed2(revertFromRounded(currentValue, mean, i - 1))
       IN  Add(c, Mul(reversionSpeed, Sub(mean, c)))

\* currentValue after i rounds of the prediction loop: predictedValue = currentValue +
\* reversionSpeed * (mean - currentValue), unrounded, is the next currentValue
RECURSIVE revert(_, _, _)
revert(currentValue, mean, i) ==
  IF i = 0 THEN currentValue
  ELSE LET c == revert(currentValue, mean, i - 1)
       IN  Add(c, Mul(reversionSpeed, Sub(mean, c)))

meanReversionModel(rows, targetCol, daysToPredict) ==
  LET values == Column(rows, targetCol)
      mean == Div(SumNums(values), Int2Num(Len(values)))
  IN  Predictions(rows, targetCol, daysToPredict,
                  [i \in 1..daysToPredict |-> ToFixed2(revert(values[Len(values)], mean, i))])

calculateMovingAverage(values, window) ==
  Div(SumNums(SliceLast(values, window)), Int2Num(window))

calculateWeightedMA(values, window) ==
  LET lastWindow == SliceLast(values, window)
      weightSum == SumNums([k \in 1..Len(lastWindow) |-> Int2Num(k)])
      valueSum == SumNums([k \in 1..Len(lastWindow) |-> Mul(lastWindow[k], Int2Num(k))])
  IN  Div(valueSum, weightSum)

randomForestModel(rows, targetCol, daysToPredict) ==
  LET values == Column(rows, targetCol)
      predictedValue ==
        Add(Add(Mul(calculateMovingAverage(values, 3), Frac(3, 10)),
                Mul(calculateMovingAverage(values, 7), Frac(3, 10))),
            Add(Mul(calculateMovingAverage(values, 14), Frac(2, 10)),
                Mul(calculateWeightedMA(values, 5), Frac(2, 10))))
  IN  Predictions(rows, targetCol, daysToPredict, [i \in 1..daysToPredict |-> ToFixed2(predictedValue)])


(***************************************************************************)
(* Model library: the models kept as terms.  rnd[i] is what the calls of   *)
(* Math.random() made while predicting day i would return.                 *)
(***************************************************************************)
\* the outcome classes of one day's Math.random() calls
RandomOutcomes == {0, 1}

randomReadsEveryDay(fn, rnd, i) == <<rnd[i]>>

\* the results of Math.random() that enter the value of day i:
\* xgboostModel draws five times a day (once per weak learner) and lastValue carries each
\* day's result into the next; bstsModel draws three times a day, each day on its own;
\* no other model function calls Math.random()
randomReads(fn, rnd, i) ==
  CASE fn = "xgboostModel" -> SubSeq(rnd, 1, i)
    [] fn = "bstsModel" -> <<rnd[i]>>
    [] OTHER -> NoRandom

doubleExponentialSmoothingModel(rows, targetCol, daysToPredict, rnd) ==
  LET values == Column(rows, targetCol)
      fn == "doubleExponentialSmoothingModel"
  IN  Predictions(rows, targetCol, daysToPredict,
        [i \in 1..daysToPredict |-> Term(fn, values, NoDates, NoZone, 0, i, randomReads(fn, rnd, i))])

svrModel(rows, targetCol, daysToPredict, rnd) ==
  LET values == Column(rows, targetCol)
      fn == "svrModel"
  IN  Predictions(rows, targetCol, daysToPredict,
        [i \in 1..daysToPredict |-> Term(fn, values, NoDates, NoZone, 0, i, randomReads(fn, rnd, i))])

identifyPatternIsZeroBelowLookback(values, lookback) == Len(values) < lookback

\* identifyPattern returns 0 for a series shorter than twice the lookback
identifyPatternIsZero(values, lookback) == Len(values) < lookback * 2

\* otherwise the mean of (values[i] - values[i - lookback]) / lookback over the indices
\* from lookback on
identifyPattern(values, lookback) ==
  IF identifyPatternIsZero(values, lookback) THEN Zero
  ELSE LET changes == [k \in 1..(Len(values) - lookback) |->
                         Div(Sub(values[k + lookback], values[k]), Int2Num(lookback))]
       IN  Div(SumNums(changes), Int2Num(Len(changes)))

lstmModel(rows, targetCol, daysToPredict, rnd) ==
  LET values == Column(rows, targetCol)
      fn == "lstmModel"
  IN  IF \A lookback \in {3, 7, 14} : identifyPattern(values, lookback) = Zero
      THEN \* predictedChange = 0 / weightSum = 0 on every day
           Predictions(rows, targetCol, daysToPredict, [i \in 1..daysToPredict |-> ToFixed2(Add(values[Len(values)], Zero))])
      ELSE Predictions(rows, targetCol, daysToPredict,
             [i \in 1..daysToPredict |-> Term(fn, values, NoDates, NoZone, 0, i, randomReads(fn, rnd, i))])

\* dayFactor = i / daysToPredict: the horizon enters the arithmetic
transformerModel(rows, targetCol, daysToPredict, rnd) ==
  LET values == Column(rows, targetCol)
      fn == "transformerModel"
  IN  Predictions(rows, targetCol, daysToPredict,
        [i \in 1..daysToPredict |-> Term(fn, values, NoDates, NoZone, daysToPredict, i, randomReads(fn, rnd, i))])

\* date.getDay(): the day of the week of the local calendar day (0 = Sunday; day 0 of the
\* epoch was a Thursday)
getDay(t) == ((LocalTime(t) \div 24) + 4) % 7

\* for each day of the week, the mean of the rows' values on that day minus the mean of
\* all values; 0 for a day of the week no row falls on
detectWeeklyPattern(rows, col) ==
  LET values == Column(rows, col)
      overallMean == Div(SumNums(values), Int2Num(Len(values)))
      on(w, k) == getDay(ParseDate(rows[k].date)) = w
      weekdayAvgs == [w \in 0..6 |->
                        SumNums([k \in 1..Len(rows) |-> IF on(w, k) THEN values[k] ELSE Zero])]
      weekdayCounts == [w \in 0..6 |-> Cardinality({k \in 1..Len(rows) : on(w, k)})]
  IN  [w \in 0..6 |->
         IF weekdayCounts[w] > 0
         THEN Sub(Div(weekdayAvgs[w], Int2Num(weekdayCounts[w])), overallMean)
         ELSE Zero]

\* the length from which detectMonthlyPattern looks for a monthly effect
monthlyMinLength == 60

\* below monthlyMinLength rows monthlyFactor is 0 and monthlySeasonal = 0 * (dayOfMonth / 30)
\* = 0; from there on the value is kept as a term over the values, the dates and the zone
prophetModel(rows, targetCol, daysToPredict, rnd) ==
  LET values == Column(rows, targetCol)
      fn == "prophetModel"
      n == Len(values)
      fit == LeastSquares(values)
      weeklyPattern == detectWeeklyPattern(rows, targetCol)
      nextDate(i) == SetDatePlus(ParseDate(rows[n].date), i)
      trendPrediction(i) == Add(fit.intercept, Mul(fit.slope, Int2Num(n + i - 1)))
      weeklySeasonal(i) ==
        LET offset == weeklyPattern[getDay(nextDate(i))]
        IN  IF IsNaN(offset) THEN Zero ELSE offset   \* weeklyPattern[dayOfWeek] || 0
      predictedValue(i) == Add(Add(trendPrediction(i), weeklySeasonal(i)), Zero)
  IN  IF n < monthlyMinLength
      THEN Predictions(rows, targetCol, daysToPredict,
             [i \in 1..daysToPredict |-> ToFixed2(predictedValue(i))])
      ELSE Predictions(rows, targetCol, daysToPredict,
             [i \in 1..daysToPredict |-> Term(fn, values, Dates(rows), tz.name, 0, i, randomReads(fn, rnd, i))])

xgboostModel(rows, targetCol, daysToPredict, rnd) ==
  LET values == Column(rows, targetCol)
      fn == "xgboostModel"
  IN  Predictions(rows, targetCol, daysToPredict,
        [i \in 1..daysToPredict |-> Term(fn, values, NoDates, NoZone, 0, i, randomReads(fn, rnd, i))])

autoARIMAModel(rows, targetCol, daysToPredict, rnd) ==
  LET values == Column(rows, targetCol)
      fn == "autoARIMAModel"
  IN  Predictions(rows, targetCol, daysToPredict,
        [i \in 1..daysToPredict |-> Term(fn, values, NoDates, NoZone, 0, i, randomReads(fn, rnd, i))])

\* estimateSeasonality and the loop read getDay() of the rows' and the new dates
bstsModel(rows, targetCol, daysToPredict, rnd) ==
  LET values == Column(rows, targetCol)
      fn == "bstsModel"
  IN  Predictions(rows, targetCol, daysToPredict,
        [i \in 1..daysToPredict |-> Term(fn, values, Dates(rows), tz.name, 0, i, randomReads(fn, rnd, i))])

\* what data would be left as if the rolling window were data itself
gamRollAliased(rows, daysToPredict) ==
  IF Len(rows) = 0 THEN rows
  ELSE SubSeq(rows, Len(rows) - Len(SliceLast(rows, 10)) + 1 + daysToPredict, Len(rows))

\* lastValues = values.slice(-10) is rolled forward by push and shift: the array that
\* data is left as (slice and map copy, so the rolling touches neither data nor values)
gamRoll(rows, daysToPredict) == rows

gamModel(rows, targetCol, daysToPredict, rnd) ==
  LET values == Column(rows, targetCol)
      fn == "gamModel"
      r == Predictions(rows, targetCol, daysToPredict,
             [i \in 1..daysToPredict |-> Term(fn, values, Dates(rows), tz.name, 0, i, randomReads(fn, rnd, i))])
  IN  [r EXCEPT !.input = gamRoll(rows, daysToPredict)]

(***************************************************************************)
(* The catalogue and its dispatch.                                         *)
(***************************************************************************)
predictionMethods ==
  { "linear", "movingAverage", "exponential", "doubleExponential", "arima", "seasonal",
    "meanReversion", "randomForest", "svr", "lstm", "transformer", "prophet", "xgboost",
    "autoARIMA", "bsts", "gam" }

\* the ids of predictionMethods in the order of the catalogue
methodIds ==
  << "linear", "movingAverage", "exponential", "doubleExponential", "arima", "autoARIMA",
     "seasonal", "meanReversion", "randomForest", "svr", "xgboost", "prophet", "gam",
     "bsts", "lstm", "transformer" >>

\* what the random source can return to a call predicting h days
Draws(h) == [1..h -> RandomOutcomes]

modelFn(method, rows, targetCol, daysToPredict, rnd) ==
  CASE method = "linear" -> linearRegressionModel(rows, targetCol, daysToPredict)
    [] method = "movingAverage" -> movingAverageModel(rows, targetCol, daysToPredict)
    [] method = "exponential" -> exponentialSmoothingModel(rows, targetCol, daysToPredict)
    [] method = "doubleExponential" ->
         doubleExponentialSmoothingModel(rows, targetCol, daysToPredict, rnd)
    [] method = "arima" -> arimaLikeModel(rows, targetCol, daysToPredict)
    [] method = "autoARIMA" -> autoARIMAModel(rows, targetCol, daysToPredict, rnd)
    [] method = "seasonal" -> seasonalNaiveModel(rows, targetCol, daysToPredict)
    [] method = "meanReversion" -> meanReversionModel(rows, targetCol, daysToPredict)
    [] method = "randomForest" -> randomForestModel(rows, targetCol, daysToPredict)
    [] method = "svr" -> svrModel(rows, targetCol, daysToPredict, rnd)
    [] method = "lstm" -> lstmModel(rows, targetCol, daysToPredict, rnd)
    [] method = "transformer" -> transformerModel(rows, targetCol, daysToPredict, rnd)
    [] method = "prophet" -> prophetModel(rows, targetCol, daysToPredict, rnd)
    [] method = "xgboost" -> xgboostModel(rows, targetCol, daysToPredict, rnd)
    [] method = "bsts" -> bstsModel(rows, targetCol, daysToPredict, rnd)
    [] method = "gam" -> gamModel(rows, targetCol, daysToPredict, rnd)


(***************************************************************************)
(* Metric library.                                                         *)
(***************************************************************************)
Hundred == Int2Num(100)

calculateMAEUnguarded(actual, predicted) ==
  IF Len(actual) = 0 THEN Zero
  ELSE Div(SumNums([i \in 1..Len(actual) |-> AbsNum(Sub(actual[i], At(predicted, i)))]),
           Int2Num(Len(actual)))

calculateMAE(actual, predicted) ==
  IF Len(actual) # Len(predicted) \/ Len(actual) = 0 THEN Zero
  ELSE Div(SumNums([i \in 1..Len(actual) |-> AbsNum(Sub(actual[i], predicted[i]))]),
           Int2Num(Len(actual)))

calculateMSE(actual, predicted) ==
  IF Len(actual) # Len(predicted) \/ Len(actual) = 0 THEN Zero
  ELSE Div(SumNums([i \in 1..Len(actual) |->
                      Mul(Sub(actual[i], predicted[i]), Sub(actual[i], predicted[i]))]),
           Int2Num(Len(actual)))

calculateRMSE(actual, predicted) == Sqrt(calculateMSE(actual, predicted))

\* sum and count after the loop has visited the first k indices
RECURSIVE mapeLoop(_, _, _)
mapeLoop(actual, predicted, k) ==
  IF k = 0 THEN [sum |-> Zero, count |-> 0]
  ELSE LET acc == mapeLoop(actual, predicted, k - 1)
       IN  IF actual[k] # Zero
           THEN [sum |-> Add(acc.sum,
                             AbsNum(Div(Sub(actual[k], predicted[k]), actual[k]))),
                 count |-> acc.count + 1]
           ELSE acc

calculateMAPEOverLength(actual, predicted) ==
  IF Len(actual) # Len(predicted) \/ Len(actual) = 0 THEN Zero
  ELSE LET acc == mapeLoop(actual, predicted, Len(actual))
       IN  IF acc.count > 0 THEN Mul(Div(acc.sum, Int2Num(Len(actual))), Hundred) ELSE Zero

calculateMAPE(actual, predicted) ==
  IF Len(actual) # Len(predicted) \/ Len(actual) = 0 THEN Zero
  ELSE LET acc == mapeLoop(actual, predicted, Len(actual))
       IN  IF acc.count > 0 THEN Mul(Div(acc.sum, Int2Num(acc.count)), Hundred) ELSE Zero

calculateR2(actual, predicted) ==
  IF Len(actual) # Len(predicted) \/ Len(actual) = 0 THEN Zero
  ELSE LET meanActual == Div(SumNums(actual), Int2Num(Len(actual)))
           ssTotal == SumNums([i \in 1..Len(actual) |->
                        Mul(Sub(actual[i], meanActual), Sub(actual[i], meanActual))])
           ssResidual == SumNums([i \in 1..Len(actual) |->
                        Mul(Sub(actual[i], predicted[i]), Sub(actual[i], predicted[i]))])
       IN  IF Gt(ssTotal, Zero) THEN Sub(Int2Num(1), Div(ssResidual, ssTotal)) ELSE Zero

RECURSIVE correctDirectionsStrict(_, _, _)
correctDirectionsStrict(actual, predicted, k) ==
  IF k <= 1 THEN 0
  ELSE LET actualDirection == Sub(actual[k], actual[k - 1])
           predictedDirection == Sub(predicted[k], predicted[k - 1])
       IN  correctDirectionsStrict(actual, predicted, k - 1)
           + (IF \/ (Gt(actualDirection, Zero) /\ Gt(predictedDirection, Zero))
                 \/ (Lt(actualDirection, Zero) /\ Lt(predictedDirection, Zero))
              THEN 1 ELSE 0)

\* correctDirections after the loop has visited i = 1 .. k-1 (positions 2..k here)
RECURSIVE correctDirections(_, _, _)
correctDirections(actual, predicted, k) ==
  IF k <= 1 THEN 0
  ELSE LET actualDirection == Sub(actual[k], actual[k - 1])
           predictedDirection == Sub(predicted[k], predicted[k - 1])
       IN  correctDirections(actual, predicted, k - 1)
           + (IF \/ (Ge(actualDirection, Zero) /\ Ge(predictedDirection, Zero))
                 \/ (Lt(actualDirection, Zero) /\ Lt(predictedDirection, Zero))
              THEN 1 ELSE 0)

calculateDirectionalAccuracy(actual, predicted) ==
  IF Len(actual) <= 1 \/ Len(predicted) <= 1 \/ Len(actual) # Len(predicted) THEN Zero
  ELSE Mul(Frac(correctDirections(actual, predicted, Len(actual)), Len(actual) - 1), Hundred)

noClamp(x) == x

\* Math.max(0, x); NaN if x is
mathMax0(x) == IF IsNaN(x) THEN NaN ELSE IF Gt(x, Zero) THEN x ELSE Zero

mathRoundHalfDown(x) ==
  IF x.d = 0 \/ x.e > 0 THEN x
  ELSE IF x.e < 0 THEN Zero
  ELSE Int2Num(-((-2 * x.n + x.d) \div (2 * x.d)))

\* Math.round: the nearest integer, a half going up
mathRound(x) ==
  IF x.d = 0 \/ x.e > 0 THEN x
  ELSE IF x.e < 0 THEN Zero
  ELSE Int2Num((2 * x.n + x.d) \div (2 * x.d))

weights == [mape |-> Frac(1, 4), r2 |-> Frac(1, 4), directionalAccuracy |-> Frac(1, 2)]

calculateModelScore(metrics) ==
  LET mapeScore == mathMax0(Sub(Hundred, metrics.mape))
      r2Score == mathMax0(Mul(metrics.r2, Hundred))
      daScore == metrics.directionalAccuracy
      weightedScore == Add(Add(Mul(mapeScore, weights.mape), Mul(r2Score, weights.r2)),
                           Mul(daScore, weights.directionalAccuracy))
  IN  mathRound(weightedScore)

(***************************************************************************)
(* Backtest harness.                                                       *)
(***************************************************************************)
\* item[targetCol] of a prediction row, which holds the one field it was built with
GetPredicted(item, targetCol) == IF item.field = targetCol THEN item.value ELSE NaN

tooShortSingleWindow(rows, testWindowSize) == Len(rows) < testWindowSize

\* data.length < testWindowSize * 2
tooShort(rows, testWindowSize) == Len(rows) < testWindowSize * 2

trainingSliceWhole(rows, testWindowSize) == rows

\* the position slice makes of an index: a negative one counts from the end, and
\* the result stays within the array
sliceIndex(i, len) ==
  IF i < 0 THEN (IF len + i < 0 THEN 0 ELSE len + i) ELSE (IF i > len THEN len ELSE i)

\* data.slice(0, data.length - testWindowSize)
trainingSlice(rows, testWindowSize) ==
  SubSeq(rows, 1, sliceIndex(Len(rows) - testWindowSize, Len(rows)))

\* data.slice(data.length - testWindowSize)
testSlice(rows, testWindowSize) ==
  SubSeq(rows, sliceIndex(Len(rows) - testWindowSize, Len(rows)) + 1, Len(rows))

\* The harness result, with what the call did besides: whether it threw, the calls of
\* the model function it made, the rows it took the actual values from, the rows the
\* model returned, and the input as it left it.
zeroResult(thrown, invoked, tested, log, after) ==
  [thrown |-> thrown, mae |-> Zero, mse |-> Zero, rmse |-> Zero, mape |-> Zero,
   r2 |-> Zero, directionalAccuracy |-> Zero,
   predictedValues |-> <<>>, actualValues |-> <<>>,
   invoked |-> invoked, tested |-> tested, rows |-> <<>>, log |-> log, input |-> after]

\* the evaluation metrics of the extracted values
evaluation(actualValues, predictedValues, invoked, tested, predictions, after) ==
  [thrown |-> FALSE,
   mae |-> calculateMAE(actualValues, predictedValues),
   mse |-> calculateMSE(actualValues, predictedValues),
   rmse |-> calculateRMSE(actualValues, predictedValues),
   mape |-> calculateMAPE(actualValues, predictedValues),
   r2 |-> calculateR2(actualValues, predictedValues),
   directionalAccuracy |-> calculateDirectionalAccuracy(actualValues, predictedValues),
   predictedValues |-> predictedValues, actualValues |-> actualValues,
   invoked |-> invoked, tested |-> tested, rows |-> predictions.rows,
   log |-> predictions.log, input |-> after]

\* a value that is a number here, not a term
IsNumber(x) == "d" \in DOMAIN x

\* a metric of predicted values that are terms: a term over what the metric reads
MetricTerm(name, actualValues, predictedValues) ==
  [metric |-> name, actual |-> actualValues, predicted |-> predictedValues]

evaluationOfTerms(actualValues, predictedValues, invoked, tested, predictions, after) ==
  [thrown |-> FALSE,
   mae |-> MetricTerm("mae", actualValues, predictedValues),
   mse |-> MetricTerm("mse", actualValues, predictedValues),
   rmse |-> MetricTerm("rmse", actualValues, predictedValues),
   mape |-> MetricTerm("mape", actualValues, predictedValues),
   r2 |-> MetricTerm("r2", actualValues, predictedValues),
   directionalAccuracy |-> MetricTerm("directionalAccuracy", actualValues, predictedValues),
   predictedValues |-> predictedValues, actualValues |-> actualValues,
   invoked |-> invoked, tested |-> tested, rows |-> predictions.rows,
   log |-> predictions.log, input |-> after]

\* the part of the harness after the model function has returned predictions or thrown;
\* slice copies, so what the model did to its input array does not reach rows
extractAndScore(rows, targetCol, testData, call, predictions) ==
  IF predictions.thrown
  THEN zeroResult(TRUE, <<call>>, Ids(testData), predictions.log, rows)
  ELSE IF \A k \in 1..Len(predictions.rows) : IsNumber(predictions.rows[k].value)
  THEN evaluation(Column(testData, targetCol),
                  [k \in 1..Len(predictions.rows) |->
                     GetPredicted(predictions.rows[k], targetCol)],
                  <<call>>, Ids(testData), predictions, rows)
  ELSE evaluationOfTerms(Column(testData, targetCol),
                         [k \in 1..Len(predictions.rows) |->
                            GetPredicted(predictions.rows[k], targetCol)],
                         <<call>>, Ids(testData), predictions, rows)

\* the part of the harness after the length check
splitAndPredict(rows, targetCol, method, testWindowSize, rnd, trainingData) ==
  extractAndScore(rows, targetCol, testSlice(rows, testWindowSize),
                  [method |-> method, ids |-> Ids(trainingData),
                   targetCol |-> targetCol, daysToPredict |-> testWindowSize],
                  modelFn(method, trainingData, targetCol, testWindowSize, rnd))

generateBacktestResults(rows, targetCol, method, testWindowSize, rnd) ==
  IF tooShort(rows, testWindowSize)
  THEN zeroResult(FALSE, <<>>, <<>>, <<>>, rows)
  ELSE splitAndPredict(rows, targetCol, method, testWindowSize, rnd,
                       trainingSlice(rows, testWindowSize))

(***************************************************************************)
(* The inputs: series of up to MaxLen rows dated on consecutive days, the  *)
(* last one on the eve of a daylight-saving change; target values of three *)
(* shapes, with a second numeric column running the other way.             *)
(***************************************************************************)
Shapes == {"flat", "up", "zigzag"}

Close(shape, k) ==
  CASE shape = "flat" -> 2
    [] shape = "up" -> k
    [] shape = "zigzag" -> 1 + 2 * (k % 2)

\* 2024-03-09 and 2024-03-30, as days since 1970-01-01
LastDays == {19791, 19812}

Series(shape, n, lastDay) ==
  [k \in 1..n |-> [id |-> k,
                   date |-> lastDay - (n - k),
                   close |-> Int2Num(Close(shape, k)),
                   open |-> Int2Num(10 - Close(shape, k))]]

\* the methods whose values are numbers for series of any length
RationalMethods ==
  {"linear", "movingAverage", "exponential", "arima", "seasonal", "meanReversion",
   "randomForest"}

\* prediction rows are object literals: each is a new object
Allocate(r, id) ==
  [r EXCEPT !.rows = [k \in 1..Len(r.rows) |->
                        [id |-> id + k - 1,
                         date |-> r.rows[k].date,
                         field |-> r.rows[k].field,
                         value |-> r.rows[k].value,
                         isPrediction |-> r.rows[k].isPrediction]]]

(***************************************************************************)
(* The DataProvider: the dataset, isLoading and the cache of model         *)
(* predictions.  A handler reads the state of the render it belongs to and *)
(* queues its updates; the queue is applied, in order, for the next render.*)
(***************************************************************************)
\* the number of predictions the cache is cut down to
cacheLimit == 20

\* the useState defaults (no dataset); pending is the queue of updates, now the clock
\* Date.now() reads, issued the additions made since the last render, applied the
\* additions the last render applied, and steps the handlers run so far
initialContext ==
  [dataset |-> FALSE, isLoading |-> FALSE, modelPredictions |-> <<>>,
   pending |-> <<>>, now |-> 0, issued |-> <<>>, applied |-> <<>>, steps |-> 0]

trimKeepingAll(prev) == prev

\* prev.sort((a, b) => b.createdAt - a.createdAt).slice(0, 20): the sort is stable, so
\* of two predictions of the same createdAt the one further back in prev comes later
trim(prev) ==
  LET n == Len(prev)
      before(j, i) == \/ prev[j].createdAt > prev[i].createdAt
                      \/ prev[j].createdAt = prev[i].createdAt /\ j < i
      rank(i) == Cardinality({j \in 1..n : before(j, i)}) + 1
      sorted == [r \in 1..n |-> prev[CHOOSE i \in 1..n : rank(i) = r]]
  IN  SubSeq(sorted, 1, IF n < cacheLimit THEN n ELSE cacheLimit)

\* modelPredictions.find(...): the first prediction of these parameters, or undefined
getModelPrediction(modelPredictions, modelId, targetColumn, predictionDays) ==
  LET hits == {k \in 1..Len(modelPredictions) :
                 /\ modelPredictions[k].modelId = modelId
                 /\ modelPredictions[k].targetColumn = targetColumn
                 /\ modelPredictions[k].predictionDays = predictionDays}
  IN  IF hits = {} THEN [found |-> FALSE]
      ELSE [found |-> TRUE,
            prediction |-> modelPredictions[CHOOSE k \in hits : \A j \in hits : k <= j]]

(***************************************************************************)
(* The Prediction page: the state of the component.                        *)
(***************************************************************************)
\* selectedPredictionPoint is null
noPoint == -1

\* the useState defaults; toast, handler, calls and steps record the last toast shown,
\* the last handler run, the model functions it called and the handlers run so far
initialPage ==
  [dataset |-> FALSE, targetColumn |-> "", dateColumn |-> "", predictionDays |-> 7,
   predictionMethod |-> "linear", predictions |-> <<>>, isGenerating |-> FALSE,
   activeTab |-> "chart", modelComparison |-> <<>>, modelEvaluations |-> <<>>,
   backtestWindowSize |-> 7, selectedPredictionPoint |-> noPoint,
   toast |-> "", handler |-> "", calls |-> 0, steps |-> 0]

\* Math.floor(data.length * (splitRatio / 100))
splitIndex(rows, splitRatio) == (Len(rows) * splitRatio) \div 100

\* the page after the effect that runs when the dataset is there: the first date column,
\* the first numeric column, and the default prediction point of splitData (80 %)
mountedPage(rows, dateCol, numericCol) ==
  [initialPage EXCEPT !.dataset = TRUE, !.dateColumn = dateCol, !.targetColumn = numericCol,
                      !.selectedPredictionPoint =
                         IF Len(rows) = 0 THEN noPoint ELSE splitIndex(rows, 80)]

Init ==
  /\ tz \in Zones
  /\ \E shape \in Shapes, n \in 0..MaxLen, lastDay \in LastDays :
       data = Series(shape, n, lastDay)
  /\ nextId = Len(data) + 1
  /\ op = [kind |-> "init"]
  /\ page = initialPage
  /\ context = initialContext

\* the call recorded in call returns r: its rows are new objects, and the series is
\* left as the callee left its input array
Returned(call, r) ==
  /\ op' = [call EXCEPT !.results = Append(@, Allocate(r, nextId))]
  /\ data' = r.input
  /\ nextId' = nextId + Len(r.rows)

\* the backtest recorded in call returns r, which is then scored
Evaluated(call, r) ==
  Returned([call EXCEPT !.score = calculateModelScore(r)], r)

\* a model function is called on the series
CallModel ==
  /\ op.kind = "init"
  /\ \E method \in predictionMethods, targetCol \in Fields, h \in 1..MaxH :
       \E rnd \in Draws(h) :
         Returned([kind |-> "model", method |-> method, targetCol |-> targetCol,
                   daysToPredict |-> h, before |-> data, results |-> <<>>],
                  modelFn(method, data, targetCol, h, rnd))
  /\ UNCHANGED <<tz, page, context>>

\* the same call is made once more
CallModelAgain ==
  /\ op.kind = "model"
  /\ Len(op.results) = 1
  /\ \E rnd \in Draws(op.daysToPredict) :
       Returned(op, modelFn(op.method, data, op.targetCol, op.daysToPredict, rnd))
  /\ UNCHANGED <<tz, page, context>>

\* the series is backtested with a model function (one whose values are terms only
\* where the harness returns before it scores them)
Backtest ==
  /\ op.kind = "init"
  /\ \E method \in predictionMethods, targetCol \in Fields, w \in 1..MaxWindow :
       \E rnd \in Draws(w) :
         /\ method \in RationalMethods \/ tooShort(data, w)
         /\ Evaluated([kind |-> "backtest", method |-> method, targetCol |-> targetCol,
                       testWindowSize |-> w, before |-> data, results |-> <<>>,
                       score |-> Zero],
                      generateBacktestResults(data, targetCol, method, w, rnd))
  /\ UNCHANGED <<tz, page, context>>

Next == CallModel \/ CallModelAgain \/ Backtest

Spec == Init /\ [][Next]_vars

(***************************************************************************)
(* The metric functions on their own, on any two short sequences.          *)
(***************************************************************************)
MetricValues == {Int2Num(v) : v \in {-2} \cup 0..MaxMetricVal}

MetricSeqs == UNION {[1..n -> MetricValues] : n \in 0..MaxMetricLen}

InitMetrics ==
  /\ tz \in {z \in Zones : z.name = "UTC"}
  /\ data = <<>>
  /\ nextId = 1
  /\ op = [kind |-> "init"]
  /\ page = initialPage
  /\ context = initialContext

\* the six metric calls generateBacktestResults makes on a pair of sequences
metricsOf(actual, predicted) ==
  [kind |-> "metrics", actual |-> actual, predicted |-> predicted,
   mae |-> calculateMAE(actual, predicted),
   mse |-> calculateMSE(actual, predicted),
   rmse |-> calculateRMSE(actual, predicted),
   mape |-> calculateMAPE(actual, predicted),
   r2 |-> calculateR2(actual, predicted),
   directionalAccuracy |-> calculateDirectionalAccuracy(actual, predicted)]

CallMetrics ==
  /\ op.kind = "init"
  /\ \E actual \in MetricSeqs, predicted \in MetricSeqs :
       op' = metricsOf(actual, predicted)
  /\ UNCHANGED <<tz, data, nextId, page, context>>

NextMetrics == CallMetrics

SpecMetrics == InitMetrics /\ [][NextMetrics]_vars

(***************************************************************************)
(* The metric functions on finite numbers of large magnitude.              *)
(***************************************************************************)
\* 2^512, a finite double whose square is not one
Huge == [n |-> 1, d |-> 1, e |-> 1]

ExtremeValues == {Zero, Int2Num(1), Huge, Neg(Huge)}

ExtremeSeqs == UNION {[1..n -> ExtremeValues] : n \in 0..MaxExtremeLen}

CallMetricsOnExtremes ==
  /\ op.kind = "init"
  /\ \E actual \in ExtremeSeqs, predicted \in ExtremeSeqs :
       op' = metricsOf(actual, predicted)
  /\ UNCHANGED <<tz, data, nextId, page, context>>

NextExtremes == CallMetricsOnExtremes

SpecExtremes == InitMetrics /\ [][NextExtremes]_vars


(***************************************************************************)
(* calculateModelScore on its own, on backtest results of any content.     *)
(***************************************************************************)
ScoreMapes == {Zero, Int2Num(10), Hundred, Int2Num(150)}
ScoreR2s == {Int2Num(-1), Zero, Frac(4, 5), Int2Num(1), Int2Num(2)}
ScoreDirectionalAccuracies == {Zero, Int2Num(50), Int2Num(90), Hundred}
ScoreErrors == {Zero, Int2Num(3)}

\* a BacktestResult with the given metrics; the error metrics and the arrays from err
backtestResult(mape, r2, directionalAccuracy, err) ==
  [mae |-> err, mse |-> Mul(err, err), rmse |-> err, mape |-> mape, r2 |-> r2,
   directionalAccuracy |-> directionalAccuracy,
   predictedValues |-> <<err>>, actualValues |-> <<Zero>>]

CallScore ==
  /\ op.kind = "init"
  /\ \E mape \in ScoreMapes, r2 \in ScoreR2s, da \in ScoreDirectionalAccuracies,
        err \in ScoreErrors :
       op' = [kind |-> "score",
              metrics |-> backtestResult(mape, r2, da, err),
              score |-> calculateModelScore(backtestResult(mape, r2, da, err))]
  /\ UNCHANGED <<tz, data, nextId, page, context>>

NextScore == CallScore

SpecScore == InitMetrics /\ [][NextScore]_vars

(***************************************************************************)
(* The Prediction page: its handlers.                                      *)
(***************************************************************************)
DigitChars == <<"0", "1", "2", "3", "4", "5", "6", "7", "8", "9">>

IsDigit(c) == \E k \in 1..Len(DigitChars) : DigitChars[k] = c

digitValue(c) == (CHOOSE k \in 1..Len(DigitChars) : DigitChars[k] = c) - 1

RECURSIVE leadingDigits(_)
leadingDigits(text) ==
  IF text = <<>> \/ ~IsDigit(Head(text)) THEN <<>>
  ELSE <<Head(text)>> \o leadingDigits(Tail(text))

RECURSIVE decimalValue(_)
decimalValue(digits) ==
  IF digits = <<>> THEN 0
  ELSE 10 * decimalValue(SubSeq(digits, 1, Len(digits) - 1)) + digitValue(digits[Len(digits)])

\* parseInt(text), text given as its characters: an optional sign and the digits up to
\* the first other character; NaN when there is no digit
parseInt(text) ==
  LET signed == text # <<>> /\ Head(text) \in {"-", "+"}
      digits == leadingDigits(IF signed THEN Tail(text) ELSE text)
  IN  IF digits = <<>> THEN NaN
      ELSE Int2Num((IF signed /\ Head(text) = "-" THEN -1 ELSE 1) * decimalValue(digits))

\* parseInt(e.target.value) || 7
orSeven(x) == IF IsNaN(x) \/ x = Zero THEN 7 ELSE x.n

\* what the user can leave in a number input
InputTexts == { <<>>, <<"0">>, <<"1">>, <<"-", "1">>, <<"1", ".", "5">> }

\* a handler has run: it is recorded with the model functions it called
ran(p, handler, calls) ==
  [p EXCEPT !.handler = handler, !.calls = calls, !.steps = p.steps + 1]

inputsMissingButDate(p) == ~p.dataset \/ p.targetColumn = ""

\* !dataset || !targetColumn || !dateColumn
inputsMissing(p) == ~p.dataset \/ p.targetColumn = "" \/ p.dateColumn = ""

\* !selectedPredictionPoint
pointMissing(p) == p.selectedPredictionPoint = noPoint \/ p.selectedPredictionPoint = 0

\* dataset.data.slice(0, selectedPredictionPoint)
dataUpTo(rows, point) == SubSeq(rows, 1, sliceIndex(point, Len(rows)))

\* the random source as the page's handlers see it: one outcome class for a whole run
PageDraws(p) ==
  { [i \in 1..(IF p.predictionDays > p.backtestWindowSize
               THEN p.predictionDays ELSE p.backtestWindowSize) |-> r] :
      r \in RandomOutcomes }

\* generatePredictions after its checks, predictedData being what the model returned
predicted(p, rows, predictedData) ==
  IF predictedData.thrown
  THEN [p EXCEPT !.toast = "Failed to generate predictions", !.isGenerating = FALSE]
  ELSE [p EXCEPT !.predictions = rows \o predictedData.rows,
                 !.toast = "Predictions Generated", !.isGenerating = FALSE]

generatePredictions(p, rows, rnd) ==
  IF inputsMissing(p)
  THEN ran([p EXCEPT !.toast = "Please select target column and date column"],
           "generatePredictions", 0)
  ELSE IF pointMissing(p)
  THEN ran([p EXCEPT !.toast = "Please select a prediction starting point"],
           "generatePredictions", 0)
  ELSE ran(predicted(p, rows,
                     modelFn(p.predictionMethod, dataUpTo(rows, p.selectedPredictionPoint),
                             p.targetColumn, p.predictionDays, rnd)),
           "generatePredictions", 1)

\* obj[key] = value on an object whose keys are kept in insertion order
put(obj, key, value) ==
  IF \E k \in 1..Len(obj) : obj[k].id = key
  THEN [k \in 1..Len(obj) |-> IF obj[k].id = key THEN value ELSE obj[k]]
  ELSE Append(obj, value)

\* the score of an evaluation; that of metrics that are terms is an integer not
\* computed here, given by opaque
scored(id, result, opaque) ==
  [id |-> id, mae |-> result.mae, mse |-> result.mse, rmse |-> result.rmse,
   mape |-> result.mape, r2 |-> result.r2,
   directionalAccuracy |-> result.directionalAccuracy,
   predictedValues |-> result.predictedValues,
   actualValues |-> result.actualValues,
   score |-> IF IsNumber(result.mape) THEN calculateModelScore(result)
             ELSE opaque[id]]

\* one pass of the forEach body of compareAllModels (result: the evaluation)
compared(acc, id, predictedData, result, opaque) ==
  IF acc.thrown \/ predictedData.thrown \/ result.thrown
  THEN [acc EXCEPT !.thrown = TRUE]
  ELSE [thrown |-> FALSE,
        calls |-> acc.calls + 1 + Len(result.invoked),
        comparisonResults |->
          put(acc.comparisonResults, id, [id |-> id, rows |-> predictedData.rows]),
        evaluationResults |->
          put(acc.evaluationResults, id, scored(id, result, opaque))]

\* comparisonResults and evaluationResults after the first k methods of the catalogue
RECURSIVE compareLoop(_, _, _, _, _)
compareLoop(p, dataForEvaluation, rnd, opaque, k) ==
  IF k = 0
  THEN [thrown |-> FALSE, calls |-> 0, comparisonResults |-> <<>>,
        evaluationResults |-> <<>>]
  ELSE compared(compareLoop(p, dataForEvaluation, rnd, opaque, k - 1),
                methodIds[k],
                modelFn(methodIds[k], dataForEvaluation, p.targetColumn,
                        p.predictionDays, rnd),
                generateBacktestResults(dataForEvaluation, p.targetColumn, methodIds[k],
                                        p.backtestWindowSize, rnd),
                opaque)

evaluatedAllStoringPartial(p, results) ==
  ran([p EXCEPT !.modelComparison = results.comparisonResults,
                !.modelEvaluations = results.evaluationResults,
                !.activeTab = "evaluation",
                !.toast = IF results.thrown THEN "Failed to generate model evaluation"
                          ELSE "Model Evaluation Complete",
                !.isGenerating = FALSE],
      "compareAllModels", results.calls)

\* compareAllModels after its checks, results being what the loop left
evaluatedAll(p, results) ==
  IF results.thrown
  THEN ran([p EXCEPT !.toast = "Failed to generate model evaluation",
                     !.isGenerating = FALSE],
           "compareAllModels", results.calls)
  ELSE ran([p EXCEPT !.modelComparison = results.comparisonResults,
                     !.modelEvaluations = results.evaluationResults,
                     !.activeTab = "evaluation",
                     !.toast = "Model Evaluation Complete",
                     !.isGenerating = FALSE],
           "compareAllModels", results.calls)

compareAllModels(p, rows, rnd, opaque) ==
  IF inputsMissing(p)
  THEN ran([p EXCEPT !.toast = "Please select target column and date column"],
           "compareAllModels", 0)
  ELSE IF pointMissing(p)
  THEN ran([p EXCEPT !.toast = "Please select a prediction starting point"],
           "compareAllModels", 0)
  ELSE evaluatedAll(p, compareLoop(p, dataUpTo(rows, p.selectedPredictionPoint), rnd,
                                   opaque, Len(methodIds)))

\* Array.prototype.sort with (a, b) => b.score - a.score, by insertion.  A comparison
\* that gives NaN counts as 0; with such a comparison the order of the result is left to
\* the engine, and the two ways of inserting stand for the engines.
RECURSIVE insertFromRight(_, _)
insertFromRight(sorted, x) ==
  IF sorted = <<>> \/ ~Gt(Sub(x.score, sorted[Len(sorted)].score), Zero)
  THEN Append(sorted, x)
  ELSE Append(insertFromRight(SubSeq(sorted, 1, Len(sorted) - 1), x), sorted[Len(sorted)])

RECURSIVE insertFromLeft(_, _)
insertFromLeft(sorted, x) ==
  IF sorted = <<>> THEN <<x>>
  ELSE IF Lt(Sub(Head(sorted).score, x.score), Zero) THEN <<x>> \o sorted
  ELSE <<Head(sorted)>> \o insertFromLeft(Tail(sorted), x)

RECURSIVE sortFromRight(_)
sortFromRight(entries) ==
  IF entries = <<>> THEN <<>>
  ELSE insertFromRight(sortFromRight(SubSeq(entries, 1, Len(entries) - 1)),
                       entries[Len(entries)])

RECURSIVE sortFromLeft(_)
sortFromLeft(entries) ==
  IF entries = <<>> THEN <<>>
  ELSE insertFromLeft(sortFromLeft(SubSeq(entries, 1, Len(entries) - 1)),
                      entries[Len(entries)])

\* the rows of the ranked evaluation table, for each engine
prepareEvaluationData(modelEvaluations) ==
  { sortFromRight([k \in 1..Len(modelEvaluations) |->
                     [id |-> modelEvaluations[k].id, score |-> modelEvaluations[k].score]]),
    sortFromLeft([k \in 1..Len(modelEvaluations) |->
                     [id |-> modelEvaluations[k].id, score |-> modelEvaluations[k].score]]) }

\* the scores the evaluations of term-valued predictions may come to
OpaqueScores ==
  { [id \in predictionMethods |-> Int2Num(50)],
    [id \in predictionMethods |->
       Int2Num(6 * (CHOOSE k \in 1..Len(methodIds) : methodIds[k] = id))] }

\* the Select of the prediction method offers the catalogue; these are chosen
MethodChoices == {"linear", "meanReversion", "xgboost"}

\* the page once mounted on a dataset; the file's cell of the target column may be empty
\* in row k (none: k = 0)
InitPage ==
  /\ tz \in {z \in Zones : z.name = "UTC"}
  /\ \E shape \in Shapes, n \in 0..MaxPageLen, lastDay \in {19791}, k \in 0..MaxMissing :
       /\ k <= n
       /\ k = 0 \/ shape = "up"
       /\ data = IF k = 0 THEN Series(shape, n, lastDay)
                 ELSE [Series(shape, n, lastDay) EXCEPT ![k].close = Undefined]
  /\ nextId = Len(data) + 1
  /\ op = [kind |-> "init"]
  /\ context = initialContext
  /\ \/ data = <<>> /\ page = initialPage
     \/ \E dateCol \in {"", "date"}, numericCol \in {"", "close"} :
          page = mountedPage(data, dateCol, numericCol)

EditPredictionDays ==
  /\ page.steps < MaxSteps
  /\ \E text \in InputTexts :
       page' = ran([page EXCEPT !.predictionDays = orSeven(parseInt(text))],
                   "setPredictionDays", 0)
  /\ UNCHANGED <<tz, data, nextId, op, context>>

EditBacktestWindow ==
  /\ page.steps < MaxSteps
  /\ \E text \in InputTexts :
       page' = ran([page EXCEPT !.backtestWindowSize = orSeven(parseInt(text))],
                   "setBacktestWindowSize", 0)
  /\ UNCHANGED <<tz, data, nextId, op, context>>

SelectPredictionMethod ==
  /\ page.steps < MaxSteps
  /\ page.dataset
  /\ \E method \in MethodChoices :
       page' = ran([page EXCEPT !.predictionMethod = method], "setPredictionMethod", 0)
  /\ UNCHANGED <<tz, data, nextId, op, context>>

\* handlePredictionPointChange: a date of the dataset is chosen
SelectPredictionPoint ==
  /\ page.steps < MaxSteps
  /\ page.dataset
  /\ \E index \in 0..(Len(data) - 1) :
       page' = ran([page EXCEPT !.selectedPredictionPoint = index],
                   "handlePredictionPointChange", 0)
  /\ UNCHANGED <<tz, data, nextId, op, context>>

GeneratePredictions ==
  /\ page.steps < MaxSteps
  /\ \E rnd \in PageDraws(page) : page' = generatePredictions(page, data, rnd)
  /\ UNCHANGED <<tz, data, nextId, op, context>>

CompareAllModels ==
  /\ page.steps < MaxSteps
  /\ \E rnd \in PageDraws(page), opaque \in OpaqueScores :
       page' = compareAllModels(page, data, rnd, opaque)
  /\ UNCHANGED <<tz, data, nextId, op, context>>

\* 'Use this model' on the card of a method (the cards are there once a comparison is
\* stored): setPredictionMethod(method.id); generatePredictions(); setActiveTab('chart').
\* generatePredictions is the function of the render the click happens in: it reads the
\* predictionMethod of that render, and the updates are applied together afterwards.
UseThisModel ==
  /\ page.steps < MaxSteps
  /\ Len(page.modelComparison) > 0
  /\ \E method \in MethodChoices, rnd \in PageDraws(page) :
       page' = [generatePredictions(page, data, rnd) EXCEPT
                  !.predictionMethod = method, !.activeTab = "chart",
                  !.handler = "useThisModel"]
  /\ UNCHANGED <<tz, data, nextId, op, context>>

NextPage ==
  \/ UseThisModel
  \/ EditPredictionDays
  \/ EditBacktestWindow
  \/ SelectPredictionMethod
  \/ SelectPredictionPoint
  \/ GeneratePredictions
  \/ CompareAllModels

SpecPage == InitPage /\ [][NextPage]_vars

(***************************************************************************)
(* linearRegressionModel on series that are linear, or linear but for one  *)
(* value.                                                                  *)
(***************************************************************************)
LinearStarts == {Int2Num(0), Int2Num(100)}
LinearSteps == {Int2Num(-2), Int2Num(0), Frac(1, 2), Int2Num(1)}
LinearBumps == {Int2Num(0), Int2Num(3)}

\* rows dated on consecutive days with close = start + step * k (k = 0, 1, ...), the
\* second one raised by bump
LinearSeries(start, step, bump, n) ==
  [k \in 1..n |->
     [id |-> k, date |-> 19791 - (n - k),
      close |-> Add(Add(start, Mul(step, Int2Num(k - 1))), IF k = 2 THEN bump ELSE Zero),
      open |-> Zero]]

InitLinear ==
  /\ tz \in {z \in Zones : z.name = "UTC"}
  /\ \E start \in LinearStarts, step \in LinearSteps, bump \in LinearBumps,
        n \in 1..MaxLinearLen :
       data = LinearSeries(start, step, bump, n)
  /\ nextId = Len(data) + 1
  /\ op = [kind |-> "init"]
  /\ page = initialPage
  /\ context = initialContext

CallLinearRegression ==
  /\ op.kind = "init"
  /\ \E h \in 1..MaxLinearH :
       Returned([kind |-> "linear", method |-> "linear", targetCol |-> "close",
                 daysToPredict |-> h, before |-> data, results |-> <<>>],
                linearRegressionModel(data, "close", h))
  /\ UNCHANGED <<tz, page, context>>

NextLinear == CallLinearRegression

SpecLinear == InitLinear /\ [][NextLinear]_vars

(***************************************************************************)
(* seasonalNaiveModel over horizons longer than two seasons.               *)
(***************************************************************************)
CallSeasonalNaive ==
  /\ op.kind = "init"
  /\ \E targetCol \in Fields, h \in 1..MaxSeasonalH :
       Returned([kind |-> "seasonal", method |-> "seasonal", targetCol |-> targetCol,
                 daysToPredict |-> h, before |-> data, results |-> <<>>],
                seasonalNaiveModel(data, targetCol, h))
  /\ UNCHANGED <<tz, page, context>>

NextSeasonal == CallSeasonalNaive

SpecSeasonal == Init /\ [][NextSeasonal]_vars

(***************************************************************************)
(* lstmModel and the pattern signals it computes before its loop.          *)
(***************************************************************************)
CallLstm ==
  /\ op.kind = "init"
  /\ \E targetCol \in Fields, h \in 1..MaxLstmH :
       Returned([kind |-> "lstm", method |-> "lstm", targetCol |-> targetCol,
                 daysToPredict |-> h, before |-> data, results |-> <<>>,
                 patterns |-> [lookback \in {3, 7, 14} |->
                                 identifyPattern(Column(data, targetCol), lookback)]],
                lstmModel(data, targetCol, h, [i \in 1..h |-> 0]))
  /\ UNCHANGED <<tz, page, context>>

NextLstm == CallLstm

SpecLstm == Init /\ [][NextLstm]_vars

(***************************************************************************)
(* The DataProvider's handlers and the render that applies their updates.  *)
(***************************************************************************)
\* the provider with a cache of n predictions, what n additions to an empty cache, each
\* followed by a render, leave: all made within the same millisecond, or each a
\* millisecond after the one before
InitContext ==
  /\ tz \in {z \in Zones : z.name = "UTC"}
  /\ data = <<>>
  /\ nextId = 1
  /\ op = [kind |-> "init"]
  /\ page = initialPage
  /\ \E n \in (0..MaxCached) \cup ((cacheLimit - MaxCached)..cacheLimit),
        clock \in {"same", "rising"} :
       LET createdAt(k) == IF clock = "same" THEN 0 ELSE k
       IN  context =
             [initialContext EXCEPT
                !.modelPredictions =
                   [k \in 1..n |->
                      [modelId |-> methodIds[((k - 1) % Len(methodIds)) + 1],
                       targetColumn |-> "close",
                       predictionDays |-> 7 + ((k - 1) \div Len(methodIds)),
                       data |-> 1, createdAt |-> createdAt(k)]],
                !.now = createdAt(n)]

\* addModelPrediction(modelId, targetColumn, predictionDays, data), with parameters not
\* yet used or those of the first prediction of the cache; data is numbered within the
\* render.  It filters the modelPredictions of its render, queues the new array and,
\* from 20 predictions left by the filter on, the updater that cuts the array down.
AddModelPrediction ==
  /\ context.steps < MaxContextSteps
  /\ LET modelPredictions == context.modelPredictions
         params(p) == [modelId |-> p.modelId, targetColumn |-> p.targetColumn,
                       predictionDays |-> p.predictionDays]
         paramsOf(k) == [modelId |-> methodIds[((k - 1) % Len(methodIds)) + 1],
                         targetColumn |-> "close",
                         predictionDays |-> 7 + ((k - 1) \div Len(methodIds))]
         used == {params(modelPredictions[k]) : k \in 1..Len(modelPredictions)}
                   \cup {params(context.issued[k]) : k \in 1..Len(context.issued)}
         unused == {k \in 1..(cacheLimit + MaxContextSteps) : paramsOf(k) \notin used}
         choices == {paramsOf(k) : k \in {j \in unused : \A i \in unused : j <= i}}
                      \cup {params(modelPredictions[k]) : k \in 1..Len(modelPredictions) \cap {1}}
     IN  \E c \in choices, now \in {context.now, context.now + 1} :
           LET filteredPredictions ==
                 SelectSeq(modelPredictions, LAMBDA p : params(p) # c)
               prediction == [modelId |-> c.modelId, targetColumn |-> c.targetColumn,
                              predictionDays |-> c.predictionDays,
                              data |-> Len(context.issued) + 1, createdAt |-> now]
               added == [field |-> "modelPredictions", updater |-> FALSE,
                         value |-> Append(filteredPredictions, prediction)]
               cut == [field |-> "modelPredictions", updater |-> TRUE, value |-> <<>>]
           IN  context' =
                 [context EXCEPT
                    !.pending = IF Len(filteredPredictions) >= cacheLimit
                                THEN @ \o <<added, cut>> ELSE Append(@, added),
                    !.now = now,
                    !.issued = Append(@, prediction),
                    !.steps = @ + 1]
  /\ UNCHANGED <<tz, data, nextId, op, page>>

\* clearModelPredictions: setModelPredictions([])
ClearModelPredictions ==
  /\ context.steps < MaxContextSteps
  /\ context' =
       [context EXCEPT
          !.pending = Append(@, [field |-> "modelPredictions", updater |-> FALSE,
                                 value |-> <<>>]),
          !.issued = <<>>,
          !.steps = @ + 1]
  /\ UNCHANGED <<tz, data, nextId, op, page>>

\* loadSampleData, clearData and loadDataset, which runs in two parts: up to the await of
\* the file's text, and from there on, the file being accepted or rejected
ReplaceData ==
  /\ context.steps < MaxContextSteps
  /\ LET isLoading(b) == [field |-> "isLoading", updater |-> FALSE, value |-> b]
         dataset(b) == [field |-> "dataset", updater |-> FALSE, value |-> b]
         cleared == [field |-> "modelPredictions", updater |-> FALSE, value |-> <<>>]
     IN  \E operation \in {"loadSampleData", "clearData", "loadDataset", "accepted",
                            "rejected"} :
           /\ operation \in {"accepted", "rejected"} => context.isLoading
           /\ context' =
                [context EXCEPT
                   !.pending =
                      @ \o CASE operation = "loadSampleData" ->
                                  <<isLoading(TRUE), dataset(TRUE), cleared, isLoading(FALSE)>>
                             [] operation = "clearData" -> <<dataset(FALSE), cleared>>
                             [] operation = "loadDataset" -> <<isLoading(TRUE)>>
                             [] operation = "accepted" ->
                                  <<dataset(TRUE), cleared, isLoading(FALSE)>>
                             [] operation = "rejected" -> <<isLoading(FALSE)>>,
                   !.issued = IF operation \in {"loadDataset", "rejected"} THEN @ ELSE <<>>,
                   !.steps = @ + 1]
  /\ UNCHANGED <<tz, data, nextId, op, page>>

\* the queue is applied: a value replaces what is there, the updater cuts it down (applied
\* more than once in a row it changes nothing more)
Render ==
  /\ context.pending # <<>>
  /\ LET q == context.pending
         values(field) == {k \in 1..Len(q) : q[k].field = field /\ ~q[k].updater}
         last(field) == CHOOSE k \in values(field) : \A j \in values(field) : j <= k
         final(field, current) ==
           IF values(field) = {} THEN current ELSE q[last(field)].value
         from == IF values("modelPredictions") = {} THEN 0 ELSE last("modelPredictions")
         base == final("modelPredictions", context.modelPredictions)
     IN  context' =
           [context EXCEPT
              !.dataset = final("dataset", @),
              !.isLoading = final("isLoading", @),
              !.modelPredictions =
                 IF \E k \in 1..Len(q) : q[k].updater /\ k > from THEN trim(base) ELSE base,
              !.pending = <<>>,
              !.applied = context.issued,
              !.issued = <<>>]
  /\ UNCHANGED <<tz, data, nextId, op, page>>

NextContext == AddModelPrediction \/ ClearModelPredictions \/ ReplaceData \/ Render

SpecContext == InitContext /\ [][NextContext]_vars

(***************************************************************************)
(* Properties.                                                             *)
(***************************************************************************)
IsModelCall == op.kind = "model"
IsBacktest == op.kind = "backtest"
IsMetrics == op.kind = "metrics"

\* rows without their object identity
Content(rows) ==
  [k \in 1..Len(rows) |-> [date |-> rows[k].date, field |-> rows[k].field,
                           value |-> rows[k].value, isPrediction |-> rows[k].isPrediction]]

\* C1: a backtest of a series shorter than twice the window returns all-zero metrics and
\* empty predicted and actual arrays, without calling the model function or throwing.
C1_ShortSeriesAllZero ==
  (IsBacktest /\ Len(op.before) < 2 * op.testWindowSize) =>
    LET r == op.results[1]
    IN  /\ ~r.thrown
        /\ r.mae = Zero /\ r.mse = Zero /\ r.rmse = Zero
        /\ r.mape = Zero /\ r.r2 = Zero /\ r.directionalAccuracy = Zero
        /\ r.predictedValues = <<>> /\ r.actualValues = <<>>
        /\ r.invoked = <<>>

C1_Witness ==
  /\ IsBacktest
  /\ Len(op.before) = 3
  /\ op.testWindowSize = 2
  /\ op.method = "seasonal"

\* C2: a backtest of a series of at least twice the window calls the model function
\* exactly once, with the first len-w rows in order, the target field and w; the actual
\* values are the target values of the last w rows, the predicted values those of the
\* returned rows, both in order; training and test rows are disjoint and make up the series.
C2_SplitPredictExtract ==
  (IsBacktest /\ Len(op.before) >= 2 * op.testWindowSize) =>
    LET r == op.results[1]
        len == Len(op.before)
        w == op.testWindowSize
    IN  /\ Len(r.invoked) = 1
        /\ r.invoked[1].method = op.method
        /\ r.invoked[1].ids = [k \in 1..(len - w) |-> op.before[k].id]
        /\ r.invoked[1].targetCol = op.targetCol
        /\ r.invoked[1].daysToPredict = w
        /\ r.actualValues = [k \in 1..w |-> Get(op.before[len - w + k], op.targetCol)]
        /\ Len(r.predictedValues) = Len(r.rows)
        /\ \A k \in 1..Len(r.rows) :
             r.rows[k].field = op.targetCol /\ r.predictedValues[k] = r.rows[k].value
        /\ r.invoked[1].ids \o r.tested = Ids(op.before)
        /\ {r.invoked[1].ids[k] : k \in 1..(len - w)} \cap {r.tested[k] : k \in 1..w} = {}

C2_Witness ==
  /\ IsBacktest
  /\ Len(op.before) = 5
  /\ op.testWindowSize = 2
  /\ op.targetCol = "open"
  /\ Len(op.results[1].predictedValues) = 2
  /\ op.results[1].invoked[1].ids = <<1, 2, 3>>

\* C3: for a series of at least two rows and a horizon h >= 1 every model function returns
\* exactly h rows, row i flagged as a prediction and dated i calendar days after the last
\* input row, so that the dates increase strictly.
C3_ShapeAndDates ==
  (IsModelCall /\ Len(op.before) >= 2) =>
    \A c \in 1..Len(op.results) :
      LET r == op.results[c]
          last == op.before[Len(op.before)].date
      IN  /\ ~r.thrown
          /\ Len(r.rows) = op.daysToPredict
          /\ \A i \in 1..Len(r.rows) :
               r.rows[i].isPrediction = TRUE /\ r.rows[i].date = last + i
          /\ \A i \in 2..Len(r.rows) : r.rows[i - 1].date < r.rows[i].date

\* C4: called with an empty series, or one shorter than its minimum order, every model
\* function returns a prediction sequence and does not throw.
C4_NeverThrows ==
  (IsModelCall /\ Len(op.before) < seasonLength) =>
    \A c \in 1..Len(op.results) :
      ~op.results[c].thrown /\ Len(op.results[c].rows) = op.daysToPredict

\* C5: below 4 rows arimaLikeModel returns what exponentialSmoothingModel returns on the
\* same arguments, below 7 rows seasonalNaiveModel returns what movingAverageModel returns;
\* from those lengths on neither delegates.
C5_FallbackEquivalence ==
  IsModelCall =>
    LET r == op.results[1]
        n == Len(op.before)
    IN  /\ (op.method = "arima" /\ n >= 1 /\ n < 4) =>
             /\ r.log = <<"exponentialSmoothingModel">>
             /\ ~r.thrown
             /\ Content(r.rows) =
                  exponentialSmoothingModel(op.before, op.targetCol, op.daysToPredict).rows
        /\ (op.method = "arima" /\ n >= 4) => r.log = <<>>
        /\ (op.method = "seasonal" /\ n >= 1 /\ n < 7) =>
             /\ r.log = <<"movingAverageModel">>
             /\ ~r.thrown
             /\ Content(r.rows) =
                  movingAverageModel(op.before, op.targetCol, op.daysToPredict).rows
        /\ (op.method = "seasonal" /\ n >= 7) => r.log = <<>>

C5_Witness ==
  /\ IsModelCall
  /\ op.method = "arima"
  /\ Len(op.before) = 3
  /\ op.daysToPredict = 2
  /\ op.before[1].close # op.before[2].close
  /\ op.results[1].log = <<"exponentialSmoothingModel">>

C8_DegenerateInputsGiveZero ==
  IsMetrics =>
    /\ (Len(op.actual) # Len(op.predicted) \/ Len(op.actual) = 0) =>
         /\ op.mae = Zero /\ op.mse = Zero /\ op.rmse = Zero
         /\ op.mape = Zero /\ op.r2 = Zero
    /\ (Len(op.actual) <= 1 \/ Len(op.predicted) <= 1 \/ Len(op.actual) # Len(op.predicted)) =>
         op.directionalAccuracy = Zero

C8_Witness ==
  /\ IsMetrics
  /\ Len(op.actual) = 2
  /\ Len(op.predicted) = 1
  /\ op.actual[1] # op.predicted[1]

\* sum of f over a finite set of indices
RECURSIVE SumOver(_, _)
SumOver(S, f) ==
  IF S = {} THEN Zero
  ELSE LET i == CHOOSE j \in S : \A k \in S : j <= k
       IN  Add(f[i], SumOver(S \ {i}, f))

\* C9: for sequences of equal length MAPE is the mean of |actual[i]-predicted[i]| /
\* |actual[i]| * 100 over the indices with actual[i] # 0, divided by the number of those
\* indices; an index with actual[i] = 0 adds nothing; with no such index the result is 0.
C9_MapeOverNonZeroActuals ==
  (IsMetrics /\ Len(op.actual) = Len(op.predicted)) =>
    LET nonZero == {i \in 1..Len(op.actual) : op.actual[i].n # 0}
        pct == [i \in nonZero |->
                  Mul(Div(AbsNum(Sub(op.actual[i], op.predicted[i])), AbsNum(op.actual[i])),
                      Hundred)]
    IN  op.mape = IF nonZero = {} THEN Zero
                  ELSE Div(SumOver(nonZero, pct), Int2Num(Cardinality(nonZero)))

C9_Witness ==
  /\ IsMetrics
  /\ Len(op.actual) = 3
  /\ Len(op.predicted) = 3
  /\ op.actual[2] = Zero
  /\ op.predicted[2] # Zero
  /\ op.actual[1] = Int2Num(-2)
  /\ op.predicted[1] = Int2Num(1)
  /\ op.actual[3] = op.predicted[3]
  /\ op.mape = Int2Num(75)

\* C10: for equal lengths n > 1 directional accuracy is 100 * k / (n-1), k the number of
\* steps at which the actual and the predicted difference are both >= 0 or both < 0; a
\* flat step agrees with a flat or a rising step and never with a falling one.
C10_DirectionalAccuracy ==
  (IsMetrics /\ Len(op.actual) = Len(op.predicted) /\ Len(op.actual) > 1) =>
    LET n == Len(op.actual)
        da(i) == op.actual[i].n - op.actual[i - 1].n
        dp(i) == op.predicted[i].n - op.predicted[i - 1].n
        k == Cardinality({i \in 2..n : (da(i) >= 0 /\ dp(i) >= 0) \/ (da(i) < 0 /\ dp(i) < 0)})
    IN  /\ op.directionalAccuracy = Frac(100 * k, n - 1)
        /\ (n = 2 /\ da(2) = 0 /\ dp(2) >= 0) => op.directionalAccuracy = Hundred
        /\ (n = 2 /\ da(2) = 0 /\ dp(2) < 0) => op.directionalAccuracy = Zero
        /\ (n = 2 /\ dp(2) = 0 /\ da(2) < 0) => op.directionalAccuracy = Zero

C10_Witness ==
  /\ IsMetrics
  /\ Len(op.actual) = 3
  /\ Len(op.predicted) = 3
  /\ op.actual[2] = op.actual[1]
  /\ op.predicted[2].n > op.predicted[1].n
  /\ op.actual[3].n > op.actual[2].n
  /\ op.predicted[3].n < op.predicted[2].n
  /\ op.directionalAccuracy = Int2Num(50)

\* a metric result that is a number other than NaN and +-Infinity (the root of a
\* positive finite number is one)
IsFiniteResult(x) == IF "sqrtOf" \in DOMAIN x THEN IsFinite(x.sqrtOf) ELSE IsFinite(x)

\* SS_total and SS_residual of the sequences of the last metric call
SquaredDeviations(from) ==
  SumOver(1..Len(op.actual),
          [i \in 1..Len(op.actual) |->
             Mul(Sub(op.actual[i], from[i]), Sub(op.actual[i], from[i]))])

MeanActual ==
  [i \in 1..Len(op.actual) |->
     Div(SumOver(1..Len(op.actual), op.actual), Int2Num(Len(op.actual)))]

\* C11: for any two finite sequences directional accuracy is in [0,100], MAPE >= 0,
\* RMSE >= 0 and R2 <= 1; an R2 below 0 (residuals larger than the spread of the actual
\* values) is returned as it is, not as 0.
C11_MetricRanges ==
  IsMetrics =>
    /\ Ge(op.directionalAccuracy, Zero) /\ Ge(Hundred, op.directionalAccuracy)
    /\ Ge(op.mape, Zero)
    /\ ("sqrtOf" \in DOMAIN op.rmse \/ Ge(op.rmse, Zero))
    /\ Ge(Int2Num(1), op.r2)
    /\ (/\ Len(op.actual) = Len(op.predicted) /\ Len(op.actual) > 0
        /\ Gt(SquaredDeviations(MeanActual), Zero)
        /\ Gt(SquaredDeviations(op.predicted), SquaredDeviations(MeanActual)))
         => Lt(op.r2, Zero)

\* C12: for finite inputs no metric is NaN or +-Infinity; R2 is 0 when all actual values
\* are equal (SS_total = 0) and MAPE is 0 when no actual value is non-zero.
C12_MetricsFinite ==
  IsMetrics =>
    /\ IsFiniteResult(op.mae) /\ IsFiniteResult(op.mse) /\ IsFiniteResult(op.rmse)
    /\ IsFiniteResult(op.mape) /\ IsFiniteResult(op.r2)
    /\ IsFiniteResult(op.directionalAccuracy)
    /\ (\A i, j \in 1..Len(op.actual) : op.actual[i] = op.actual[j]) => op.r2 = Zero
    /\ (\A i \in 1..Len(op.actual) : op.actual[i] = Zero) => op.mape = Zero

IsScore == op.kind = "score"

\* the weighted sum the score is the rounding of, from the three metrics alone
WeightedOf(mape, r2, da) ==
  LET m == Sub(Hundred, mape)
      r == Mul(Hundred, r2)
  IN  Add(Add(Div(IF Lt(m, Zero) THEN Zero ELSE m, Int2Num(4)),
              Div(IF Lt(r, Zero) THEN Zero ELSE r, Int2Num(4))),
          Div(da, Int2Num(2)))

\* C13: the score is 0.25 * max(0, 100 - mape) + 0.25 * max(0, 100 * r2) + 0.5 *
\* directionalAccuracy rounded to the nearest integer, a half going up (87.5 gives 88);
\* mae, mse, rmse and the arrays of the result have no influence on it.
C13_ScoreFormula ==
  IsScore =>
    LET w == WeightedOf(op.metrics.mape, op.metrics.r2, op.metrics.directionalAccuracy)
    IN  /\ op.score.d = 1 /\ op.score.e = 0
        /\ Ge(w, Sub(op.score, Frac(1, 2)))
        /\ Lt(w, Add(op.score, Frac(1, 2)))
        /\ \A err \in ScoreErrors :
             calculateModelScore(backtestResult(op.metrics.mape, op.metrics.r2,
                                                op.metrics.directionalAccuracy, err))
               = op.score

C13_Witness ==
  /\ IsScore
  /\ op.metrics.mape = Int2Num(10)
  /\ op.metrics.r2 = Frac(4, 5)
  /\ op.metrics.directionalAccuracy = Int2Num(90)
  /\ op.metrics.mae = Int2Num(3)
  /\ op.score = Int2Num(88)

\* C14: with mape >= 0, r2 <= 1 and directionalAccuracy in [0,100] the score is an
\* integer in 0..100; a mape above 100 counts like a mape of 100 and a negative r2 like
\* an r2 of 0, each adding nothing to the score.
C14_ScoreRange ==
  IsScore =>
    LET mape == op.metrics.mape
        r2 == op.metrics.r2
        da == op.metrics.directionalAccuracy
    IN  /\ (/\ Ge(mape, Zero) /\ Ge(Int2Num(1), r2)
            /\ Ge(da, Zero) /\ Ge(Hundred, da))
             => /\ op.score.d = 1 /\ op.score.e = 0
                /\ op.score.n \in 0..100
        /\ Gt(mape, Hundred) =>
             op.score = calculateModelScore(backtestResult(Hundred, r2, da, Zero))
        /\ Lt(r2, Zero) =>
             op.score = calculateModelScore(backtestResult(mape, Zero, da, Zero))

C14_Witness ==
  /\ IsScore
  /\ op.metrics.mape = Int2Num(150)
  /\ op.metrics.r2 = Int2Num(-1)
  /\ op.metrics.directionalAccuracy = Int2Num(50)
  /\ op.score = Int2Num(25)

\* C15: the score of the backtest of any of the 16 models on any series with finite
\* values and any window w >= 1 is an integer in 0..100, never NaN, also when the
\* training slice has one row and when the series is constant.
C15_StoredScoreInRange ==
  IsBacktest =>
    /\ op.score.d = 1 /\ op.score.e = 0
    /\ op.score.n \in 0..100

\* the last handler run was a compare-all that completed
IsCompared == page.handler = "compareAllModels" /\ page.toast = "Model Evaluation Complete"

\* the number of entries stored under id
Stored(obj, id) == Cardinality({k \in 1..Len(obj) : obj[k].id = id})

\* C16: a compare-all run that completes stores exactly one prediction sequence and
\* exactly one evaluation with its score for each of the 16 catalogued ids, each computed
\* by the model function registered for the id; the ranked table has every evaluated
\* model exactly once, in non-increasing order of score.
C16_CompareAllStoresAndRanks ==
  IsCompared =>
    LET dataForEvaluation == dataUpTo(data, page.selectedPredictionPoint)
    IN  /\ Cardinality(predictionMethods) = 16
        /\ Len(page.modelComparison) = 16 /\ Len(page.modelEvaluations) = 16
        /\ \A id \in predictionMethods :
             /\ Stored(page.modelComparison, id) = 1
             /\ Stored(page.modelEvaluations, id) = 1
        /\ \E rnd \in PageDraws(page) :
             \A k \in 1..16 :
               /\ page.modelComparison[k].rows =
                    modelFn(page.modelComparison[k].id, dataForEvaluation,
                            page.targetColumn, page.predictionDays, rnd).rows
               /\ page.modelEvaluations[k].predictedValues =
                    generateBacktestResults(dataForEvaluation, page.targetColumn,
                                            page.modelEvaluations[k].id,
                                            page.backtestWindowSize, rnd).predictedValues
        /\ \A table \in prepareEvaluationData(page.modelEvaluations) :
             /\ Len(table) = 16
             /\ \A id \in predictionMethods : Stored(table, id) = 1
             /\ \A i \in 1..15 : Ge(table[i].score, table[i + 1].score)

\* C17: generatePredictions and compareAllModels, run without a dataset, a target column
\* or a date column, show the error and stop: no model function is called, and
\* predictions, modelComparison, modelEvaluations, activeTab and isGenerating stay.
C17_MissingInputsStop ==
  [][(/\ page'.steps = page.steps + 1
      /\ page'.handler \in {"generatePredictions", "compareAllModels"}
      /\ (~page.dataset \/ page.targetColumn = "" \/ page.dateColumn = ""))
       => /\ page'.toast = "Please select target column and date column"
          /\ page'.calls = 0
          /\ page'.predictions = page.predictions
          /\ page'.modelComparison = page.modelComparison
          /\ page'.modelEvaluations = page.modelEvaluations
          /\ page'.activeTab = page.activeTab
          /\ page'.isGenerating = page.isGenerating]_vars

C17_Witness ==
  /\ page.handler = "compareAllModels"
  /\ page.dataset
  /\ page.targetColumn = "close"
  /\ page.dateColumn = ""
  /\ page.selectedPredictionPoint = 2
  /\ page.toast = "Please select target column and date column"
  /\ page.calls = 0
  /\ page.modelEvaluations = <<>>

\* C18: whatever is typed into the two number inputs, predictionDays and
\* backtestWindowSize stay integers in 1..30.
C18_InputsWithinBounds ==
  /\ page.predictionDays \in 1..30
  /\ page.backtestWindowSize \in 1..30

IsLinearCall == op.kind = "linear"

\* the target values of the rows the last call returned
ReturnedValues == [i \in 1..Len(op.results[1].rows) |-> op.results[1].rows[i].value]

\* the series 100, 101, ..., 109
IsHundredToHundredNine ==
  /\ Len(data) = 10
  /\ \A k \in 1..Len(data) : data[k].close = Int2Num(99 + k)

\* C19 as stated: for the 10-row series with close = 100, 101, ..., 109,
\* linearRegressionModel(series, 'close', 3) returns the values 111.00, 112.00, 113.00.
C19_AsStated ==
  (IsLinearCall /\ IsHundredToHundredNine /\ op.daysToPredict = 3) =>
    ReturnedValues = <<Int2Num(111), Int2Num(112), Int2Num(113)>>

\* C19, amended: for the 10-row series with close = 100, 101, ..., 109,
\* linearRegressionModel(series, 'close', 3) returns the values 110.00, 111.00, 112.00.
C19_NextThreeValues ==
  (IsLinearCall /\ IsHundredToHundredNine /\ op.daysToPredict = 3) =>
    ReturnedValues = <<Int2Num(110), Int2Num(111), Int2Num(112)>>

C19_Witness ==
  /\ IsLinearCall
  /\ IsHundredToHundredNine
  /\ op.daysToPredict = 3
  /\ Len(op.results[1].rows) = 3

\* the series is start + step * k throughout
IsExactlyLinear ==
  \A k \in 1..Len(data) :
    data[k].close = Add(data[1].close,
                        Mul(Sub(data[2].close, data[1].close), Int2Num(k - 1)))

\* C20: the values returned lie on the least-squares line of the target against the row
\* index 0..n-1 (the residuals sum to 0 and are orthogonal to the index), taken at
\* x = n, ..., n+h-1; for a series a + d*k with n >= 2 rows the i-th value is
\* a + d*(n+i-1), so the first one is the last observed value plus d.
C20_LeastSquaresLineContinued ==
  (IsLinearCall /\ Len(data) >= 2) =>
    LET n == Len(data)
        y == Column(data, "close")
        fit == LeastSquares(y)
        residual == [k \in 1..n |->
                       Sub(y[k], Add(Mul(fit.slope, Int2Num(k - 1)), fit.intercept))]
        d == Sub(y[2], y[1])
    IN  /\ SumOver(1..n, residual) = Zero
        /\ SumOver(1..n, [k \in 1..n |-> Mul(Int2Num(k - 1), residual[k])]) = Zero
        /\ \A i \in 1..op.daysToPredict :
             ReturnedValues[i] =
               ToFixed2(Add(Mul(fit.slope, Int2Num(n + i - 1)), fit.intercept))
        /\ IsExactlyLinear =>
             /\ \A i \in 1..op.daysToPredict :
                  ReturnedValues[i] = Add(y[1], Mul(d, Int2Num(n + i - 1)))
             /\ ReturnedValues[1] = Add(y[n], d)

C20_Witness ==
  /\ IsLinearCall
  /\ Len(data) = 4
  /\ IsExactlyLinear
  /\ data[1].close = Int2Num(100)
  /\ data[2].close = Frac(201, 2)
  /\ op.daysToPredict = 2
  /\ ReturnedValues = <<Int2Num(102), Frac(205, 2)>>

\* values returned by the first call of a model function
ModelValues == [i \in 1..Len(op.results[1].rows) |-> op.results[1].rows[i].value]

\* C21: for a series of n >= 1 rows movingAverageModel returns the same value for every
\* day: the mean of the last 5 target values, of the values present when there are fewer
\* than 5 rows (to 2 decimals); a series whose values all equal c yields c.
C21_MeanOfLastValues ==
  (IsModelCall /\ op.method = "movingAverage" /\ Len(op.before) >= 1) =>
    LET values == Column(op.before, op.targetCol)
        present == SliceLast(values, 5)
        mean == Div(SumOver(1..Len(present), present), Int2Num(Len(present)))
    IN  /\ Len(ModelValues) = op.daysToPredict
        /\ \A i \in 1..op.daysToPredict : ModelValues[i] = ToFixed2(mean)
        /\ (\A k \in 1..Len(values) : values[k] = values[1]) =>
             \A i \in 1..op.daysToPredict : ModelValues[i] = values[1]

\* C22: for n >= 4 arimaLikeModel's i-th value is last + i * avgDiff to 2 decimals, where
\* last is the final target value and avgDiff the mean of the 3 first differences among
\* the last 4 values, (v[n-1] - v[n-4]) / 3; only the last 4 rows influence the forecast.
C22_LastPlusAverageDifference ==
  (IsModelCall /\ op.method = "arima" /\ Len(op.before) >= 4) =>
    LET v == Column(op.before, op.targetCol)
        n == Len(v)
        differences == [k \in 1..3 |-> Sub(v[n - 3 + k], v[n - 4 + k])]
        avgDiff == Div(SumOver(1..3, differences), Int2Num(3))
        lastFour == SubSeq(op.before, n - 3, n)
    IN  /\ avgDiff = Div(Sub(v[n], v[n - 3]), Int2Num(3))
        /\ ~op.results[1].thrown
        /\ Len(ModelValues) = op.daysToPredict
        /\ \A i \in 1..op.daysToPredict :
             ModelValues[i] = ToFixed2(Add(v[n], Mul(Int2Num(i), avgDiff)))
        /\ Content(op.results[1].rows) =
             arimaLikeModel(lastFour, op.targetCol, op.daysToPredict).rows

C22_Witness ==
  /\ IsModelCall
  /\ op.method = "arima"
  /\ op.targetCol = "close"
  /\ Len(op.before) = 8
  /\ op.before[8].close = Int2Num(1)
  /\ op.before[5].close = Int2Num(3)
  /\ op.before[4].close # op.before[5].close
  /\ ModelValues = <<Frac(33, 100), Frac(-33, 100)>>

\* C23: for n >= 7 seasonalNaiveModel's i-th value is the observed v[n-7+((i-1) mod 7)]
\* (indices from 0) to 2 decimals: the first 7 values are the last 7 observed ones in
\* order, the forecast has period 7, and every index read lies inside the series.
C23_LastSeasonRepeated ==
  (op.kind = "seasonal" /\ Len(op.before) >= 7) =>
    LET v == Column(op.before, op.targetCol)
        n == Len(v)
        h == op.daysToPredict
        read(i) == n - 7 + ((i - 1) % 7)
    IN  /\ ~op.results[1].thrown
        /\ op.results[1].log = <<>>
        /\ Len(ModelValues) = h
        /\ \A i \in 1..h :
             /\ read(i) \in 0..(n - 1)
             /\ ModelValues[i] = ToFixed2(v[read(i) + 1])
        /\ \A i \in 1..h : i <= 7 => ModelValues[i] = ToFixed2(v[n - 7 + i])
        /\ \A i \in 1..h : i + 7 <= h => ModelValues[i + 7] = ModelValues[i]

C23_Witness ==
  /\ op.kind = "seasonal"
  /\ op.targetCol = "close"
  /\ Len(op.before) = 8
  /\ op.daysToPredict = 15
  /\ \A k \in 1..8 : op.before[k].close = Int2Num(k)
  /\ \A i \in 1..7 : ModelValues[i] = Int2Num(i + 1) /\ ModelValues[i + 7] = Int2Num(i + 1)
  /\ ModelValues[15] = Int2Num(2)

RECURSIVE Power(_, _)
Power(x, k) == IF k = 0 THEN Int2Num(1) ELSE Mul(x, Power(x, k - 1))

\* C24: meanReversionModel's forecast is p[0] = last observed value, p[i] = p[i-1] +
\* 0.1 * (mean - p[i-1]) with the mean of the whole series, the returned value of day i
\* being p[i] to 2 decimals; the p[i] move monotonically toward the mean, |mean - p[i]|
\* shrinks by the factor 0.9 per day, and no p[i] is on the other side of the mean.
C24_RevertsTowardMean ==
  (IsModelCall /\ op.method = "meanReversion" /\ Len(op.before) >= 1) =>
    LET v == Column(op.before, op.targetCol)
        n == Len(v)
        mean == Div(SumOver(1..n, v), Int2Num(n))
        p == [i \in 0..op.daysToPredict |->
                Add(mean, Mul(Power(Frac(9, 10), i), Sub(v[n], mean)))]
    IN  /\ p[0] = v[n]
        /\ Len(ModelValues) = op.daysToPredict
        /\ \A i \in 1..op.daysToPredict :
             /\ p[i] = Add(p[i - 1], Mul(Frac(1, 10), Sub(mean, p[i - 1])))
             /\ ModelValues[i] = ToFixed2(p[i])
             /\ AbsNum(Sub(mean, p[i])) = Mul(Frac(9, 10), AbsNum(Sub(mean, p[i - 1])))
             /\ Ge(v[n], mean) => (Ge(p[i - 1], p[i]) /\ Ge(p[i], mean))
             /\ Ge(mean, v[n]) => (Ge(p[i], p[i - 1]) /\ Ge(mean, p[i]))
        /\ \A i \in 2..op.daysToPredict :
             /\ Ge(v[n], mean) => Ge(ModelValues[i - 1], ModelValues[i])
             /\ Ge(mean, v[n]) => Ge(ModelValues[i], ModelValues[i - 1])

C24_Witness ==
  /\ IsModelCall
  /\ op.method = "meanReversion"
  /\ op.targetCol = "close"
  /\ Len(op.before) = 3
  /\ Column(op.before, "close") = <<Int2Num(3), Int2Num(1), Int2Num(3)>>
  /\ ModelValues = <<Frac(293, 100), Frac(287, 100)>>

\* C25: lstmModel's pattern signal for a lookback L in {3, 7, 14} is 0 when the series
\* has fewer than 2*L rows; with fewer than 6 rows (and at least one) all three are 0 and
\* every value returned is the last observed value, for any horizon.
C25_ShortSeriesNoPattern ==
  op.kind = "lstm" =>
    LET v == Column(op.before, op.targetCol)
        n == Len(v)
    IN  /\ DOMAIN op.patterns = {3, 7, 14}
        /\ \A L \in {3, 7, 14} : n < 2 * L => op.patterns[L] = Zero
        /\ (n >= 1 /\ n < 6) =>
             /\ \A L \in {3, 7, 14} : op.patterns[L] = Zero
             /\ ~op.results[1].thrown
             /\ Len(ModelValues) = op.daysToPredict
             /\ \A i \in 1..op.daysToPredict : ModelValues[i] = v[n]

C25_Witness ==
  /\ op.kind = "lstm"
  /\ op.targetCol = "close"
  /\ Len(op.before) = 5
  /\ Column(op.before, "close") = [k \in 1..5 |-> Int2Num(k)]
  /\ op.daysToPredict = 5
  /\ ModelValues = [i \in 1..5 |-> Int2Num(5)]

\* C26: prophetModel's weekly offset for a day of the week is the mean, over the rows on
\* that day, of the detrended series (value minus the fitted least-squares trend at the
\* row), and each value is trend + offset to 2 decimals; so for an exactly linear series
\* of fewer than 60 rows every offset is 0 and the values are intercept + slope*(n+i-1).
C26_DetrendedWeeklyOffsets ==
  (IsModelCall /\ op.method = "prophet" /\ Len(op.before) >= 2) =>
    LET v == Column(op.before, op.targetCol)
        n == Len(v)
        fit == LeastSquares(v)
        detrended == [k \in 1..n |->
                        Sub(v[k], Add(fit.intercept, Mul(fit.slope, Int2Num(k - 1))))]
        rowsOn(w) == {k \in 1..n : getDay(ParseDate(op.before[k].date)) = w}
        offset(w) == IF rowsOn(w) = {} THEN Zero
                     ELSE Div(SumOver(rowsOn(w), detrended), Int2Num(Cardinality(rowsOn(w))))
        day(i) == getDay(SetDatePlus(ParseDate(op.before[n].date), i))
        trend(i) == Add(fit.intercept, Mul(fit.slope, Int2Num(n + i - 1)))
        linear == \A k \in 2..n : Sub(v[k], v[k - 1]) = Sub(v[2], v[1])
    IN  /\ Len(ModelValues) = op.daysToPredict
        /\ \A i \in 1..op.daysToPredict :
             /\ ModelValues[i] = ToFixed2(Add(trend(i), offset(day(i))))
             /\ linear => ModelValues[i] = ToFixed2(trend(i))

C28_UseThisModelPredictsWithIt ==
  (page.handler = "useThisModel" /\ page.toast = "Predictions Generated") =>
    /\ page.activeTab = "chart"
    /\ \E rnd \in PageDraws(page) :
         LET predictedData == modelFn(page.predictionMethod,
                                      dataUpTo(data, page.selectedPredictionPoint),
                                      page.targetColumn, page.predictionDays, rnd)
         IN  ~predictedData.thrown /\ page.predictions = data \o predictedData.rows

\* C29: whatever additions, clearings and loadings have been made, the cache a render
\* sees holds at most one prediction per (modelId, targetColumn, predictionDays) and at
\* most 20 predictions.
C29_CacheBounded ==
  LET cache == context.modelPredictions
  IN  /\ Len(cache) <= 20
      /\ \A j, k \in 1..Len(cache) :
           (/\ cache[j].modelId = cache[k].modelId
            /\ cache[j].targetColumn = cache[k].targetColumn
            /\ cache[j].predictionDays = cache[k].predictionDays) => j = k

\* a 21st set of parameters was added to a full cache, and the cache holds 20
C29_Witness ==
  /\ context.pending = <<>>
  /\ Len(context.modelPredictions) = 20
  /\ Len(context.applied) = 1
  /\ context.applied[1].modelId = "arima"
  /\ context.applied[1].predictionDays = 8
  /\ context.modelPredictions[1] = context.applied[1]

\* C30: once the additions of a render are applied, getModelPrediction returns, for the
\* parameters of each, the prediction holding its data (that of the last addition of
\* these parameters) - with a full cache, several additions before the render, or equal
\* createdAt - so what a full cache loses is never the prediction just added.
C30_AddedIsFound ==
  context.pending = <<>> =>
    \A k \in 1..Len(context.applied) :
      LET a == context.applied[k]
          found == getModelPrediction(context.modelPredictions, a.modelId,
                                      a.targetColumn, a.predictionDays)
          later == {j \in (k + 1)..Len(context.applied) :
                      /\ context.applied[j].modelId = a.modelId
                      /\ context.applied[j].targetColumn = a.targetColumn
                      /\ context.applied[j].predictionDays = a.predictionDays}
      IN  later = {} => (found.found /\ found.prediction = a)

====
